---- MODULE Spec2Model ----
(***************************************************************************)
(* Loongson IOINTC interrupt controller driver                             *)
(* (drivers/irqchip/irq-loongson-iointc.c): the parent-line assignment     *)
(* computed by validate_parent_mask, the initialisation sequence of        *)
(* iointc_of_init, and the run-time callbacks of the driver.               *)
(*                                                                         *)
(* A u32 line mask is the set of its set bit positions (a subset of        *)
(* 0..31): x | y is union, x & y intersection, ~x the complement in        *)
(* Lines, BIT(n) is {n}.  The u8 possible_parent_mask is likewise a        *)
(* subset of 0..3.  A u8 map_cache / map register byte is a number in      *)
(* 0..255.                                                                 *)
(***************************************************************************)
EXTENDS Integers, Sequences, FiniteSets, TLC

IOINTC_CHIP_IRQ == 32

IOINTC_NUM_PARENT == 4

BUGGY_LPC_IRQ == 10

IOINTC_SHIFT_INTx == 4

\* number of lines whose claimants vary freely in the hint tables explored
MaxVarLines == 2

\* the boot CPU id ranges over 0..MaxBootCpu
MaxBootCpu == 1

Lines == 0 .. (IOINTC_CHIP_IRQ - 1)

Parents == 0 .. (IOINTC_NUM_PARENT - 1)

VARIABLES
    pc,                   \* position in iointc_of_init / "running" afterwards
    core,                 \* loongson_sysconf.boot_cpu_id
    have_lpc_irq_bug,     \* priv->have_lpc_irq_bug
    possible_parent_mask, \* priv->possible_parent_mask
    of_parent_int_map,    \* the "loongson,parent_int_map" property
    parent_int_map,       \* priv->handler[i].parent_int_map
    map_cache,            \* priv->map_cache[]
    proceed_mask,         \* locals of validate_parent_mask
    duplicated_mask,
    warn,                 \* the pr_warn() lines of validate_parent_mask
    map_reg,              \* IOINTC_REG_INTx_MAP(x)
    reg_disable,          \* last value written to IOINTC_REG_INTC_DISABLE
    reg_enable,           \* last value written to IOINTC_REG_INTC_ENABLE
    reg_edge,             \* IOINTC_REG_INTC_EDGE
    reg_pol,              \* IOINTC_REG_INTC_POL
    mask_cache,           \* gc->mask_cache
    gc_lock,              \* gc->lock held
    chained,              \* parents whose chained handler is installed
    trigger,              \* trigger type recorded by irqd_set_trigger_type
    res,                  \* priv / base / domain: "none", "held", "released"
    err,                  \* return value of iointc_of_init and its pr_err line
    ev,                   \* what the most recent callback did and returned
    drm,                  \* the DRM device the CRTC helpers work on
    smp                   \* the boot CPU, one secondary CPU and its mailbox

vars ==
    << pc, core, have_lpc_irq_bug, possible_parent_mask, of_parent_int_map,
       parent_int_map, map_cache, proceed_mask, duplicated_mask, warn,
       map_reg, reg_disable, reg_enable, reg_edge, reg_pol, mask_cache,
       gc_lock, chained, trigger, res, err, ev, drm, smp >>

\* the interrupt controller's runs have no DRM device
NoDrm ==
    [dev |-> "none"]

\* the runs of the interrupt controller and of the CRTC helpers start no CPU
NoSmp ==
    [bpc |-> "none"]

(***************************************************************************)
(* Bit helpers                                                             *)
(***************************************************************************)

\* __ffs(): index of the least significant set bit; undefined on 0
ffs(mask) ==
    CHOOSE b \in mask : \A c \in mask : b <= c

\* BIT(n) as a number, for the u8 map bytes
BITn(n) ==
    2 ^ n

\* x & GENMASK(3, 0) on a u8
LowNibble(x) ==
    x % 16

(***************************************************************************)
(* validate_parent_mask                                                    *)
(***************************************************************************)

\* variant: the highest available parent instead of the lowest
FallbackParentHighest(mask) ==
    CHOOSE b \in mask : \A c \in mask : c <= b

\* variant: INT0 whether or not it is available
FallbackParentInt0(mask) ==
    0

\* int fallback_parent = __ffs(priv->possible_parent_mask);
FallbackParent(mask) ==
    ffs(mask)

\* variant: duplicated_mask |= parent_int_map, without "& proceed_mask"
ScanParentAllDup(st, hints, i) ==
    [st EXCEPT !.map[i] = hints[i],
               !.duplicated = @ \cup hints[i],
               !.proceed = @ \cup hints[i]]

\* lines 173-177: one iteration of the first loop for an available parent i
ScanParent(st, hints, i) ==
    [st EXCEPT !.map[i] = hints[i],
               !.duplicated = @ \cup (hints[i] \cap st.proceed),
               !.proceed = @ \cup hints[i]]

\* variant: no "if (!(possible_parent_mask & BIT(i))) continue", the hints of
\* every parent are copied and counted
RECURSIVE ScanParentsAll(_, _, _, _)
ScanParentsAll(i, mask, hints, st) ==
    IF i >= IOINTC_NUM_PARENT THEN st
    ELSE ScanParentsAll(i + 1, mask, hints, ScanParent(st, hints, i))

\* for (i = 0; i < IOINTC_NUM_PARENT; i++): copy the hints of the available
\* parents and collect proceed_mask and duplicated_mask.
RECURSIVE ScanParents(_, _, _, _)
ScanParents(i, mask, hints, st) ==
    IF i >= IOINTC_NUM_PARENT THEN st
    ELSE IF i \notin mask THEN ScanParents(i + 1, mask, hints, st)
    ELSE ScanParents(i + 1, mask, hints, ScanParent(st, hints, i))

\* variant: parent_int_map = BIT(bit) instead of |= BIT(bit)
HomelessStepAssign(st, fb, bit) ==
    [st EXCEPT !.warn = Append(@, [kind |-> "homeless", irq |-> bit, parent |-> fb]),
               !.map[fb] = {bit},
               !.proceed = @ \cup {bit}]

\* variant: no pr_warn
HomelessStepSilent(st, fb, bit) ==
    [st EXCEPT !.map[fb] = @ \cup {bit},
               !.proceed = @ \cup {bit}]

\* lines 182-187: the body of "while (~proceed_mask)" for the chosen bit
HomelessStep(st, fb, bit) ==
    [st EXCEPT !.warn = Append(@, [kind |-> "homeless", irq |-> bit, parent |-> fb]),
               !.map[fb] = @ \cup {bit},
               !.proceed = @ \cup {bit}]

\* variant: "while (~proceed_mask & 0x7fffffff)", line 31 is never looked at
RECURSIVE HomelessLoopSkipTop(_, _)
HomelessLoopSkipTop(st, fb) ==
    IF Lines \ st.proceed \subseteq {IOINTC_CHIP_IRQ - 1} THEN st
    ELSE HomelessLoopSkipTop(HomelessStep(st, fb, ffs(Lines \ st.proceed)), fb)

RECURSIVE HomelessLoop(_, _)
HomelessLoop(st, fb) ==
    IF Lines \ st.proceed = {} THEN st
    ELSE HomelessLoop(HomelessStep(st, fb, ffs(Lines \ st.proceed)), fb)

\* variant: the bit is not cleared in the other parents
DuplicatedStepNoClear(st, fb, bit) ==
    [st EXCEPT !.warn = Append(@, [kind |-> "duplicated", irq |-> bit, parent |-> fb]),
               !.map[fb] = @ \cup {bit},
               !.duplicated = @ \ {bit}]

\* variant: the line stays with the lowest parent that claims it
DuplicatedStepKeepFirst(st, fb, bit) ==
    [st EXCEPT !.warn = Append(@, [kind |-> "duplicated", irq |-> bit, parent |-> fb]),
               !.map = [i \in Parents |->
                           IF i = ffs({c \in Parents : bit \in st.map[c]})
                           THEN st.map[i] ELSE st.map[i] \ {bit}],
               !.duplicated = @ \ {bit}]

\* lines 192-201: the body of "while (duplicated_mask)" for the chosen bit
DuplicatedStep(st, fb, bit) ==
    [st EXCEPT !.warn = Append(@, [kind |-> "duplicated", irq |-> bit, parent |-> fb]),
               !.map = [i \in Parents |->
                           IF i = fb THEN (st.map[i] \ {bit}) \cup {bit}
                           ELSE st.map[i] \ {bit}],
               !.duplicated = @ \ {bit}]

RECURSIVE DuplicatedLoop(_, _)
DuplicatedLoop(st, fb) ==
    IF st.duplicated = {} THEN st
    ELSE DuplicatedLoop(DuplicatedStep(st, fb, ffs(st.duplicated)), fb)

\* priv->map_cache[bit] = BIT(i) << IOINTC_SHIFT_INTx, for every bit of
\* parent i's map, parents in ascending order (a later parent overwrites).
RECURSIVE GenMapCache(_, _, _)
GenMapCache(i, map, cache) ==
    IF i >= IOINTC_NUM_PARENT THEN cache
    ELSE GenMapCache(i + 1, map,
             [l \in Lines |->
                 IF l \in map[i] THEN (BITn(i) * BITn(IOINTC_SHIFT_INTx)) % 256
                 ELSE cache[l]])

\* The locals and the priv fields validate_parent_mask works on, at entry.
ValidateEntry(map0) ==
    [map |-> map0, proceed |-> {}, duplicated |-> {}, warn |-> << >>]

\* The three mask loops of validate_parent_mask, in the code's order.
ValidateMasks(mask, hints, map0) ==
    LET fb == FallbackParent(mask)
        s1 == ScanParents(0, mask, hints, ValidateEntry(map0))
        s2 == HomelessLoop(s1, fb)
    IN  DuplicatedLoop(s2, fb)

\* what iointc_of_init returns, with the pr_err line that precedes the return
Ret(value, msg) ==
    [ret |-> value, msg |-> msg]

NoMap ==
    [i \in Parents |-> {}]

NoCache ==
    [l \in Lines |-> 0]

\* u32 of_parent_int_map[IOINTC_NUM_PARENT] before the property is read into it
Unread ==
    << >>

(***************************************************************************)
(* Hint tables explored                                                    *)
(***************************************************************************)

\* The lines whose set of claiming parents varies: the lines of the
\* documented example, the LPC line and the two ends of the line range.
VarLineSeq ==
    << 5, 6, BUGGY_LPC_IRQ, 31, 0 >>

FirstVarLines(n) ==
    { VarLineSeq[k] : k \in 1 .. (IF n < Len(VarLineSeq) THEN n ELSE Len(VarLineSeq)) }

VarLines ==
    FirstVarLines(MaxVarLines)

\* The table in which every line outside V is claimed by the parents in base
\* and line l of V by the parents in f[l].
HintTable(V, base, f) ==
    [c \in Parents |->
        { l \in Lines \ V : c \in base } \cup { l \in V : c \in f[l] }]

\* base is empty (the other lines are unclaimed) or parent 1, which is the
\* fallback, another available parent or an unavailable one according to
\* possible_parent_mask.
HintTables ==
    { HintTable(VarLines, base, f) :
        base \in { {}, {1} },
        f \in [VarLines -> SUBSET Parents] }

\* Claimant sets for the smaller table families: unclaimed, one parent, two
\* parents, three parents.
ClaimChoices ==
    { {}, {3}, {0, 1}, {1, 2, 3} }

(***************************************************************************)
(* iointc_of_init, line 291: the call of validate_parent_mask              *)
(***************************************************************************)

validate_parent_mask ==
    /\ pc = "validate"
    /\ \E st \in {ValidateMasks(possible_parent_mask, of_parent_int_map, parent_int_map)} :
           /\ parent_int_map' = st.map
           /\ proceed_mask' = st.proceed
           /\ duplicated_mask' = st.duplicated
           /\ warn' = st.warn
           /\ map_cache' = GenMapCache(0, st.map, map_cache)
    /\ pc' = "set_core"
    /\ UNCHANGED << smp, drm, core, have_lpc_irq_bug, possible_parent_mask, of_parent_int_map,
                    map_reg, reg_disable, reg_enable, reg_edge, reg_pol,
                    mask_cache, gc_lock, chained, trigger, res, err, ev >>

\* A fresh initialisation (kzalloc'ed priv) whose parent_int_map property is
\* the assignment the previous one produced, with the same parents.
revalidate_parent_mask ==
    /\ pc = "set_core"
    /\ of_parent_int_map' = parent_int_map
    /\ \E st \in {ValidateMasks(possible_parent_mask, parent_int_map, NoMap)} :
           /\ parent_int_map' = st.map
           /\ proceed_mask' = st.proceed
           /\ duplicated_mask' = st.duplicated
           /\ warn' = st.warn
           /\ map_cache' = GenMapCache(0, st.map, NoCache)
    /\ pc' = "revalidated"
    /\ UNCHANGED << smp, drm, core, have_lpc_irq_bug, possible_parent_mask,
                    map_reg, reg_disable, reg_enable, reg_edge, reg_pol,
                    mask_cache, gc_lock, chained, trigger, res, err, ev >>

\* The state of iointc_of_init when it reaches line 291: priv zeroed but for
\* base, the bug flag and possible_parent_mask; all lines disabled and level
\* triggered; no generic chip set up, no handler installed.
AtValidate(mask, hints, bug, cpu, pol) ==
    /\ pc = "validate"
    /\ core = cpu
    /\ have_lpc_irq_bug = bug
    /\ possible_parent_mask = mask
    /\ of_parent_int_map = hints
    /\ parent_int_map = NoMap
    /\ map_cache = NoCache
    /\ proceed_mask = {}
    /\ duplicated_mask = {}
    /\ warn = << >>
    /\ map_reg = [l \in Lines |-> 0]
    /\ reg_disable = Lines
    /\ reg_enable = {}
    /\ reg_edge = {}
    /\ reg_pol = pol
    /\ mask_cache = {}
    /\ gc_lock = FALSE
    /\ chained = {}
    /\ trigger = [l \in Lines |-> "NONE"]
    /\ res = [priv |-> "held", base |-> "held", domain |-> "held"]
    /\ err = Ret("none", "")
    /\ ev = [op |-> "none"]
    /\ drm = NoDrm
    /\ smp = NoSmp

InitResolve ==
    \E mask \in (SUBSET Parents) \ {{}}, hints \in HintTables :
        AtValidate(mask, hints, FALSE, 0, {})

NextResolve ==
    \/ validate_parent_mask
    \/ revalidate_parent_mask

SpecResolve ==
    InitResolve /\ [][NextResolve]_vars

(***************************************************************************)
(* validate_parent_mask loop by loop, each of the two correction loops     *)
(* taking the lines of its mask in an arbitrary order instead of the       *)
(* ascending order __ffs gives.                                            *)
(***************************************************************************)

\* lines 164-178: the locals and the first loop
order_scan ==
    /\ pc = "validate"
    /\ \E st \in {ScanParents(0, possible_parent_mask, of_parent_int_map,
                              ValidateEntry(parent_int_map))} :
           /\ parent_int_map' = st.map
           /\ proceed_mask' = st.proceed
           /\ duplicated_mask' = st.duplicated
           /\ warn' = st.warn
    /\ pc' = "homeless"
    /\ UNCHANGED << smp, drm, core, have_lpc_irq_bug, possible_parent_mask, of_parent_int_map,
                    map_cache, map_reg, reg_disable, reg_enable, reg_edge, reg_pol,
                    mask_cache, gc_lock, chained, trigger, res, err, ev >>

\* lines 181-188: one iteration, for any line still outside proceed_mask
order_homeless ==
    /\ pc = "homeless"
    /\ \E bit \in Lines \ proceed_mask :
         \E st \in {HomelessStep([map |-> parent_int_map, proceed |-> proceed_mask,
                                  duplicated |-> duplicated_mask, warn |-> warn],
                                 FallbackParent(possible_parent_mask), bit)} :
           /\ parent_int_map' = st.map
           /\ proceed_mask' = st.proceed
           /\ duplicated_mask' = st.duplicated
           /\ warn' = st.warn
    /\ UNCHANGED << smp, drm, pc, core, have_lpc_irq_bug, possible_parent_mask, of_parent_int_map,
                    map_cache, map_reg, reg_disable, reg_enable, reg_edge, reg_pol,
                    mask_cache, gc_lock, chained, trigger, res, err, ev >>

\* line 181: ~proceed_mask is zero, the loop ends
order_homeless_done ==
    /\ pc = "homeless"
    /\ Lines \ proceed_mask = {}
    /\ pc' = "duplicated"
    /\ UNCHANGED << smp, drm, core, have_lpc_irq_bug, possible_parent_mask, of_parent_int_map,
                    parent_int_map, map_cache, proceed_mask, duplicated_mask, warn,
                    map_reg, reg_disable, reg_enable, reg_edge, reg_pol,
                    mask_cache, gc_lock, chained, trigger, res, err, ev >>

\* lines 191-202: one iteration, for any line still in duplicated_mask
order_duplicated ==
    /\ pc = "duplicated"
    /\ \E bit \in duplicated_mask :
         \E st \in {DuplicatedStep([map |-> parent_int_map, proceed |-> proceed_mask,
                                    duplicated |-> duplicated_mask, warn |-> warn],
                                   FallbackParent(possible_parent_mask), bit)} :
           /\ parent_int_map' = st.map
           /\ proceed_mask' = st.proceed
           /\ duplicated_mask' = st.duplicated
           /\ warn' = st.warn
    /\ UNCHANGED << smp, drm, pc, core, have_lpc_irq_bug, possible_parent_mask, of_parent_int_map,
                    map_cache, map_reg, reg_disable, reg_enable, reg_edge, reg_pol,
                    mask_cache, gc_lock, chained, trigger, res, err, ev >>

\* lines 191, 204-215: duplicated_mask is zero; generate the map cache, return
order_gen_map_cache ==
    /\ pc = "duplicated"
    /\ duplicated_mask = {}
    /\ map_cache' = GenMapCache(0, parent_int_map, map_cache)
    /\ pc' = "set_core"
    /\ UNCHANGED << smp, drm, core, have_lpc_irq_bug, possible_parent_mask, of_parent_int_map,
                    parent_int_map, proceed_mask, duplicated_mask, warn,
                    map_reg, reg_disable, reg_enable, reg_edge, reg_pol,
                    mask_cache, gc_lock, chained, trigger, res, err, ev >>

OrderLines ==
    FirstVarLines(MaxVarLines + 2)

\* Parent 1 claims every other line and is available, so that the lines to
\* correct are among OrderLines.
OrderTables ==
    { HintTable(OrderLines, {1}, f) : f \in [OrderLines -> ClaimChoices] }

InitAnyOrder ==
    \E mask \in { m \in SUBSET Parents : 1 \in m }, hints \in OrderTables :
        AtValidate(mask, hints, FALSE, 0, {})

NextAnyOrder ==
    \/ order_scan
    \/ order_homeless
    \/ order_homeless_done
    \/ order_duplicated
    \/ order_gen_map_cache

SpecAnyOrder ==
    InitAnyOrder /\ [][NextAnyOrder]_vars

(***************************************************************************)
(* iointc_of_init, step by step                                            *)
(***************************************************************************)

\* variant: priv->map_cache[irq] = BIT(core)
map_cache_set_core_assign(byte, cpu) ==
    BITn(cpu) % 256

\* priv->map_cache[irq] &= ~GENMASK(3, 0); priv->map_cache[irq] |= BIT(core);
\* on a u8: a bit above bit 7 is lost in the store.
map_cache_set_core(byte, cpu) ==
    LET high == byte - LowNibble(byte)
    IN  IF cpu >= 8 THEN high
        ELSE IF (high \div BITn(cpu)) % 2 = 1 THEN high
        ELSE high + BITn(cpu)

\* the resources after the kfree / iounmap / irq_domain_remove of the labels
\* the goto falls through
Released(r, labels) ==
    [k \in DOMAIN r |-> IF k \notin labels THEN r[k]
                        ELSE IF r[k] = "held" THEN "released"
                        ELSE "misfreed"]

\* The claimants the LPC line takes in the tables iointc_of_init reads here;
\* every other line is unclaimed or claimed by parent 1.
InitTables ==
    { HintTable({BUGGY_LPC_IRQ}, base, f) :
        base \in { {}, {1} },
        f \in [{BUGGY_LPC_IRQ} -> ClaimChoices] }

\* lines 232-243: kzalloc, of_iomap, of_device_is_compatible
of_init_alloc ==
    /\ pc = "alloc"
    /\ \E kzalloc_ok \in BOOLEAN, iomap_ok \in BOOLEAN, compatible_1_0 \in BOOLEAN :
          \/ /\ ~kzalloc_ok
             /\ err' = Ret("-ENOMEM", "")
             /\ pc' = "failed"
             /\ UNCHANGED << res, have_lpc_irq_bug >>
          \/ /\ kzalloc_ok /\ ~iomap_ok
             /\ err' = Ret("-ENODEV", "")
             /\ pc' = "failed"
             /\ res' = [res EXCEPT !.priv = "released"]
             /\ UNCHANGED have_lpc_irq_bug
          \/ /\ kzalloc_ok /\ iomap_ok
             /\ res' = [res EXCEPT !.priv = "held", !.base = "held"]
             /\ have_lpc_irq_bug' = compatible_1_0
             /\ pc' = "parents"
             /\ UNCHANGED err
    /\ UNCHANGED << smp, drm, core, possible_parent_mask, of_parent_int_map, parent_int_map,
                    map_cache, proceed_mask, duplicated_mask, warn, map_reg,
                    reg_disable, reg_enable, reg_edge, reg_pol, mask_cache,
                    gc_lock, chained, trigger, ev >>

\* variant: no "No parent" check
of_init_parents_unchecked ==
    /\ pc = "parents"
    /\ \E found \in SUBSET Parents : possible_parent_mask' = found
    /\ pc' = "read_map"
    /\ UNCHANGED << smp, drm, core, have_lpc_irq_bug, of_parent_int_map, parent_int_map,
                    map_cache, proceed_mask, duplicated_mask, warn, map_reg,
                    reg_disable, reg_enable, reg_edge, reg_pol, mask_cache,
                    gc_lock, chained, trigger, res, err, ev >>

\* lines 245-256: of_irq_get_byname for int0..int3, and the "No parent" check
of_init_parents ==
    /\ pc = "parents"
    /\ \E found \in SUBSET Parents :
          /\ possible_parent_mask' = found
          /\ IF found = {}
             THEN /\ err' = Ret("-ENOMEM", "No parent")
                  /\ pc' = "failed"
                  /\ res' = Released(res, {"base", "priv"})
             ELSE /\ pc' = "read_map"
                  /\ UNCHANGED << err, res >>
    /\ UNCHANGED << smp, drm, core, have_lpc_irq_bug, of_parent_int_map, parent_int_map,
                    map_cache, proceed_mask, duplicated_mask, warn, map_reg,
                    reg_disable, reg_enable, reg_edge, reg_pol, mask_cache,
                    gc_lock, chained, trigger, ev >>

\* variant: a table that leaves a line to no available parent is refused
of_init_read_map_strict ==
    /\ pc = "read_map"
    /\ \E hints \in InitTables :
          /\ of_parent_int_map' = hints
          /\ IF \E l \in Lines : \A c \in possible_parent_mask : l \notin hints[c]
             THEN /\ err' = Ret("-ENODEV", "No parent_int_map")
                  /\ pc' = "failed"
                  /\ res' = Released(res, {"base", "priv"})
             ELSE /\ pc' = "domain"
                  /\ UNCHANGED << err, res >>
    /\ UNCHANGED << smp, drm, core, have_lpc_irq_bug, possible_parent_mask, parent_int_map,
                    map_cache, proceed_mask, duplicated_mask, warn, map_reg,
                    reg_disable, reg_enable, reg_edge, reg_pol, mask_cache,
                    gc_lock, chained, trigger, ev >>

\* lines 258-265: of_property_read_variable_u32_array and the sz < 4 check
of_init_read_map ==
    /\ pc = "read_map"
    /\ \/ /\ err' = Ret("-ENODEV", "No parent_int_map")
          /\ pc' = "failed"
          /\ res' = Released(res, {"base", "priv"})
          /\ UNCHANGED of_parent_int_map
       \/ /\ \E hints \in InitTables : of_parent_int_map' = hints
          /\ pc' = "domain"
          /\ UNCHANGED << err, res >>
    /\ UNCHANGED << smp, drm, core, have_lpc_irq_bug, possible_parent_mask, parent_int_map,
                    map_cache, proceed_mask, duplicated_mask, warn, map_reg,
                    reg_disable, reg_enable, reg_edge, reg_pol, mask_cache,
                    gc_lock, chained, trigger, ev >>

\* variant: the generic-chip failure leaves by out_iounmap, not out_free_domain
of_init_domain_leak ==
    /\ pc = "domain"
    /\ \/ /\ err' = Ret("-ENOMEM", "cannot add IRQ domain")
          /\ pc' = "failed"
          /\ res' = Released(res, {"base", "priv"})
       \/ /\ err' = Ret("-ENOMEM", "unable to register IRQ domain")
          /\ pc' = "failed"
          /\ res' = Released([res EXCEPT !.domain = "held"], {"base", "priv"})
       \/ /\ res' = [res EXCEPT !.domain = "held"]
          /\ pc' = "quiesce"
          /\ UNCHANGED err
    /\ UNCHANGED << smp, drm, core, have_lpc_irq_bug, possible_parent_mask, of_parent_int_map,
                    parent_int_map, map_cache, proceed_mask, duplicated_mask, warn,
                    map_reg, reg_disable, reg_enable, reg_edge, reg_pol, mask_cache,
                    gc_lock, chained, trigger, ev >>

\* lines 267-283: irq_domain_add_linear, irq_alloc_domain_generic_chips
of_init_domain ==
    /\ pc = "domain"
    /\ \/ /\ err' = Ret("-ENOMEM", "cannot add IRQ domain")
          /\ pc' = "failed"
          /\ res' = Released(res, {"base", "priv"})
       \/ /\ err' = Ret("-ENOMEM", "unable to register IRQ domain")
          /\ pc' = "failed"
          /\ res' = Released([res EXCEPT !.domain = "held"], {"domain", "base", "priv"})
       \/ /\ res' = [res EXCEPT !.domain = "held"]
          /\ pc' = "quiesce"
          /\ UNCHANGED err
    /\ UNCHANGED << smp, drm, core, have_lpc_irq_bug, possible_parent_mask, of_parent_int_map,
                    parent_int_map, map_cache, proceed_mask, duplicated_mask, warn,
                    map_reg, reg_disable, reg_enable, reg_edge, reg_pol, mask_cache,
                    gc_lock, chained, trigger, ev >>

\* lines 286-289: disable all IRQs, set to level triggered
of_init_quiesce ==
    /\ pc = "quiesce"
    /\ reg_disable' = Lines
    /\ reg_edge' = {}
    /\ pc' = "validate"
    /\ UNCHANGED << smp, drm, core, have_lpc_irq_bug, possible_parent_mask, of_parent_int_map,
                    parent_int_map, map_cache, proceed_mask, duplicated_mask, warn,
                    map_reg, reg_enable, reg_pol, mask_cache,
                    gc_lock, chained, trigger, res, err, ev >>

\* lines 293-296: map_cache_set_core and write_map_cache for each of the lines
of_init_set_core ==
    /\ pc = "set_core"
    /\ map_cache' = [l \in Lines |-> map_cache_set_core(map_cache[l], core)]
    /\ map_reg' = [l \in Lines |-> map_cache_set_core(map_cache[l], core)]
    /\ pc' = "gc"
    /\ UNCHANGED << smp, drm, core, have_lpc_irq_bug, possible_parent_mask, of_parent_int_map,
                    parent_int_map, proceed_mask, duplicated_mask, warn,
                    reg_disable, reg_enable, reg_edge, reg_pol, mask_cache,
                    gc_lock, chained, trigger, res, err, ev >>

\* lines 298-314: the generic chip; gc->mask_cache = 0xffffffff; priv->gc = gc
of_init_gc ==
    /\ pc = "gc"
    /\ mask_cache' = Lines
    /\ pc' = "install"
    /\ UNCHANGED << smp, drm, core, have_lpc_irq_bug, possible_parent_mask, of_parent_int_map,
                    parent_int_map, map_cache, proceed_mask, duplicated_mask, warn,
                    map_reg, reg_disable, reg_enable, reg_edge, reg_pol,
                    gc_lock, chained, trigger, res, err, ev >>

\* the parents the loop of lines 316-323 has still to visit
ToInstall ==
    { i \in possible_parent_mask : \A j \in chained : j < i }

\* variant: no "if (parent_irq[i] < 0) continue", every parent gets a handler
of_init_install_all ==
    /\ pc = "install"
    /\ Parents \ chained # {}
    /\ chained' = chained \cup {ffs(Parents \ chained)}
    /\ UNCHANGED << smp, drm, pc, core, have_lpc_irq_bug, possible_parent_mask, of_parent_int_map,
                    parent_int_map, map_cache, proceed_mask, duplicated_mask, warn,
                    map_reg, reg_disable, reg_enable, reg_edge, reg_pol, mask_cache,
                    gc_lock, trigger, res, err, ev >>

\* lines 316-323: one iteration that installs a handler (parent_irq[i] >= 0)
of_init_install ==
    /\ pc = "install"
    /\ ToInstall # {}
    /\ chained' = chained \cup {ffs(ToInstall)}
    /\ UNCHANGED << smp, drm, pc, core, have_lpc_irq_bug, possible_parent_mask, of_parent_int_map,
                    parent_int_map, map_cache, proceed_mask, duplicated_mask, warn,
                    map_reg, reg_disable, reg_enable, reg_edge, reg_pol, mask_cache,
                    gc_lock, trigger, res, err, ev >>

\* line 325: return 0
of_init_return ==
    /\ pc = "install"
    /\ ToInstall = {}
    /\ err' = Ret("0", "")
    /\ pc' = "running"
    /\ UNCHANGED << smp, drm, core, have_lpc_irq_bug, possible_parent_mask, of_parent_int_map,
                    parent_int_map, map_cache, proceed_mask, duplicated_mask, warn,
                    map_reg, reg_disable, reg_enable, reg_edge, reg_pol, mask_cache,
                    gc_lock, chained, trigger, res, ev >>

(***************************************************************************)
(* The callbacks of the driver                                             *)
(***************************************************************************)

\* the trigger types iointc_set_type is called with; EDGE_BOTH stands for
\* the types the switch has no case for
TriggerTypes ==
    { "LEVEL_HIGH", "LEVEL_LOW", "EDGE_RISING", "EDGE_FALLING", "EDGE_BOTH" }

\* the lines whose irq_data the callbacks are called with
CallbackLines ==
    { BUGGY_LPC_IRQ }

\* the values read from IOINTC_REG_INTC_STATUS
PendingValues ==
    { {}, {BUGGY_LPC_IRQ}, {BUGGY_LPC_IRQ, 31} }

\* the contents the EDGE and POL registers may have when the driver has not
\* written them
ResetValues ==
    { {}, Lines }

\* variant: writel(mask, ...) without reading the register first
iointc_set_bit_overwrite(reg, mask, set) ==
    IF set THEN mask ELSE {}

\* iointc_set_bit: read-modify-write of one register
iointc_set_bit(reg, mask, set) ==
    IF set THEN reg \cup mask ELSE reg \ mask

\* lines 113-129: the EDGE and POL setting of each case of the switch
EdgeOf(type) ==
    type \in { "EDGE_RISING", "EDGE_FALLING" }

PolOf(type) ==
    type \in { "LEVEL_HIGH", "EDGE_RISING" }

\* lines 106-137
iointc_set_type ==
    /\ pc = "running"
    /\ ~gc_lock
    /\ \E irq \in CallbackLines, type \in TriggerTypes :
          IF type \in { "LEVEL_HIGH", "LEVEL_LOW", "EDGE_RISING", "EDGE_FALLING" }
          THEN /\ reg_edge' = iointc_set_bit(reg_edge, {irq}, EdgeOf(type))
               /\ reg_pol' = iointc_set_bit(reg_pol, {irq}, PolOf(type))
               /\ gc_lock' = FALSE
               /\ trigger' = [trigger EXCEPT ![irq] = type]
               /\ ev' = [op |-> "set_type", irq |-> irq, type |-> type, ret |-> "0"]
          ELSE /\ gc_lock' = TRUE
               /\ ev' = [op |-> "set_type", irq |-> irq, type |-> type, ret |-> "-EINVAL"]
               /\ UNCHANGED << reg_edge, reg_pol, trigger >>
    /\ UNCHANGED << smp, drm, pc, core, have_lpc_irq_bug, possible_parent_mask, of_parent_int_map,
                    parent_int_map, map_cache, proceed_mask, duplicated_mask, warn,
                    map_reg, reg_disable, reg_enable, mask_cache, chained, res, err >>

\* lines 139-143
iointc_set_affinity ==
    /\ pc = "running"
    /\ ev' = [op |-> "set_affinity", ret |-> "-ENAVAIL"]
    /\ UNCHANGED << smp, drm, pc, core, have_lpc_irq_bug, possible_parent_mask, of_parent_int_map,
                    parent_int_map, map_cache, proceed_mask, duplicated_mask, warn,
                    map_reg, reg_disable, reg_enable, reg_edge, reg_pol, mask_cache,
                    gc_lock, chained, trigger, res, err >>

\* variant: the map cache is reloaded from the registers
iointc_resume_readback ==
    /\ pc = "running"
    /\ ~gc_lock
    /\ \E lost \in BOOLEAN, reset \in ResetValues :
          /\ map_cache' = IF lost THEN [l \in Lines |-> 0] ELSE map_reg
          /\ map_reg' = IF lost THEN [l \in Lines |-> 0] ELSE map_reg
          /\ reg_edge' = IF lost THEN reset ELSE reg_edge
          /\ reg_pol' = IF lost THEN reset ELSE reg_pol
    /\ reg_disable' = mask_cache
    /\ reg_enable' = Lines \ mask_cache
    /\ gc_lock' = FALSE
    /\ ev' = [op |-> "resume"]
    /\ UNCHANGED << smp, drm, pc, core, have_lpc_irq_bug, possible_parent_mask, of_parent_int_map,
                    parent_int_map, proceed_mask, duplicated_mask, warn,
                    mask_cache, chained, trigger, res, err >>

\* variant: for (i = 0; i < IOINTC_CHIP_IRQ - 1; i++), line 31 is not rewritten
iointc_resume_short ==
    /\ pc = "running"
    /\ ~gc_lock
    /\ \E lost \in BOOLEAN, reset \in ResetValues :
          /\ reg_edge' = IF lost THEN reset ELSE reg_edge
          /\ reg_pol' = IF lost THEN reset ELSE reg_pol
    /\ map_reg' = [l \in Lines |-> IF l < IOINTC_CHIP_IRQ - 1 THEN map_cache[l]
                                   ELSE map_reg[l]]
    /\ reg_disable' = mask_cache
    /\ reg_enable' = Lines \ mask_cache
    /\ gc_lock' = FALSE
    /\ ev' = [op |-> "resume"]
    /\ UNCHANGED << smp, drm, pc, core, have_lpc_irq_bug, possible_parent_mask, of_parent_int_map,
                    parent_int_map, map_cache, proceed_mask, duplicated_mask, warn,
                    mask_cache, chained, trigger, res, err >>

\* lines 145-160, called when the system comes back from suspend: the
\* registers have kept their contents or have lost them.
iointc_resume ==
    /\ pc = "running"
    /\ ~gc_lock
    /\ \E lost \in BOOLEAN, reset \in ResetValues :
          /\ reg_edge' = IF lost THEN reset ELSE reg_edge
          /\ reg_pol' = IF lost THEN reset ELSE reg_pol
    /\ map_reg' = [l \in Lines |-> map_cache[l]]
    /\ reg_disable' = mask_cache
    /\ reg_enable' = Lines \ mask_cache
    /\ gc_lock' = FALSE
    /\ ev' = [op |-> "resume"]
    /\ UNCHANGED << smp, drm, pc, core, have_lpc_irq_bug, possible_parent_mask, of_parent_int_map,
                    parent_int_map, map_cache, proceed_mask, duplicated_mask, warn,
                    mask_cache, chained, trigger, res, err >>

\* variant: the highest pending line first
RECURSIVE HandlePendingDescending(_)
HandlePendingDescending(pending) ==
    IF pending = {} THEN << >>
    ELSE LET top == CHOOSE b \in pending : \A c \in pending : c <= b
         IN  << top >> \o HandlePendingDescending(pending \ {top})

\* lines 72-77: the lines of pending, in the order they are handled
RECURSIVE HandlePending(_)
HandlePending(pending) ==
    IF pending = {} THEN << >>
    ELSE << ffs(pending) >> \o HandlePending(pending \ {ffs(pending)})

\* one call made by the handler: the function and the hardware line it is
\* called for (the parent whose desc is handled, for the calls without a line)
Call(fn, arg) ==
    [fn |-> fn, arg |-> arg]

\* variant: handler->parent_int_map is left out of the test
BlameLpcAnyParent(p) ==
    /\ have_lpc_irq_bug
    /\ BUGGY_LPC_IRQ \in (Lines \ mask_cache)

\* variant: gc->mask_cache is left out of the test
BlameLpcIgnoreMask(p) ==
    /\ have_lpc_irq_bug
    /\ BUGGY_LPC_IRQ \in parent_int_map[p]

\* lines 64-65: have_lpc_irq_bug &&
\*              (parent_int_map & ~gc->mask_cache & BIT(BUGGY_LPC_IRQ))
BlameLpc(p) ==
    /\ have_lpc_irq_bug
    /\ BUGGY_LPC_IRQ \in (parent_int_map[p] \cap (Lines \ mask_cache))

\* lines 59-79: the calls of one run of the handler of parent p that reads
\* pending from IOINTC_REG_INTC_STATUS, in the order they are made
HandlerCalls(p, pending) ==
    LET bits == HandlePending(pending)
    IN  << Call("chained_irq_enter", p) >>
        \o (IF pending # {} THEN << >>
            ELSE IF BlameLpc(p) THEN << Call("generic_handle_irq", BUGGY_LPC_IRQ) >>
            ELSE << Call("spurious_interrupt", p) >>)
        \o [k \in 1 .. Len(bits) |-> Call("generic_handle_irq", bits[k])]
        \o << Call("chained_irq_exit", p) >>

\* the lines generic_handle_irq was called for, in order
Dispatched(calls) ==
    LET sel == SelectSeq(calls, LAMBDA c : c.fn = "generic_handle_irq")
    IN  [k \in 1 .. Len(sel) |-> sel[k].arg]

\* the number of spurious_interrupt calls
Spurious(calls) ==
    Len(SelectSeq(calls, LAMBDA c : c.fn = "spurious_interrupt"))

\* lines 52-80, for the parent interrupt of handler[p]
iointc_chained_handle_irq ==
    /\ pc \in { "install", "running" }
    /\ \E p \in chained, pending \in PendingValues :
          \E calls \in { HandlerCalls(p, pending) } :
              ev' = [op |-> "chained_handle_irq",
                     parent |-> p,
                     pending |-> pending,
                     calls |-> calls,
                     handled |-> Dispatched(calls),
                     spurious |-> Spurious(calls)]
    /\ UNCHANGED << smp, drm, pc, core, have_lpc_irq_bug, possible_parent_mask, of_parent_int_map,
                    parent_int_map, map_cache, proceed_mask, duplicated_mask, warn,
                    map_reg, reg_disable, reg_enable, reg_edge, reg_pol, mask_cache,
                    gc_lock, chained, trigger, res, err >>

(***************************************************************************)
(* The driver from the entry of iointc_of_init                             *)
(***************************************************************************)

Init ==
    /\ pc = "alloc"
    /\ core \in 0 .. MaxBootCpu
    /\ have_lpc_irq_bug = FALSE
    /\ possible_parent_mask = {}
    /\ of_parent_int_map = Unread
    /\ parent_int_map = NoMap
    /\ map_cache = NoCache
    /\ proceed_mask = {}
    /\ duplicated_mask = {}
    /\ warn = << >>
    /\ map_reg = [l \in Lines |-> 0]
    /\ reg_disable = {}
    /\ reg_enable = {}
    /\ \E reset \in ResetValues : reg_edge = reset /\ reg_pol = reset
    /\ mask_cache = {}
    /\ gc_lock = FALSE
    /\ chained = {}
    /\ trigger = [l \in Lines |-> "NONE"]
    /\ res = [priv |-> "none", base |-> "none", domain |-> "none"]
    /\ err = Ret("none", "")
    /\ ev = [op |-> "none"]
    /\ drm = NoDrm
    /\ smp = NoSmp

Next ==
    \/ of_init_alloc
    \/ of_init_parents
    \/ of_init_read_map
    \/ of_init_domain
    \/ of_init_quiesce
    \/ validate_parent_mask
    \/ of_init_set_core
    \/ of_init_gc
    \/ of_init_install
    \/ of_init_return
    \/ iointc_set_type
    \/ iointc_set_affinity
    \/ iointc_resume
    \/ iointc_chained_handle_irq

Spec ==
    Init /\ [][Next]_vars

(***************************************************************************)
(* The generic chip's mask and unmask callbacks and the saved state        *)
(***************************************************************************)

\* ct->chip.irq_mask = ct->chip.irq_mask_ack = irq_gc_mask_disable_reg
\* (lines 308-309): the line's mask is written to ct->regs.disable and its
\* bit is cleared in gc->mask_cache, under the generic-chip lock.
irq_gc_mask_disable_reg ==
    /\ pc = "running"
    /\ ~gc_lock
    /\ \E irq \in CallbackLines :
          /\ reg_disable' = {irq}
          /\ mask_cache' = mask_cache \ {irq}
          /\ ev' = [op |-> "irq_mask", irq |-> irq]
    /\ gc_lock' = FALSE
    /\ UNCHANGED << smp, drm, pc, core, have_lpc_irq_bug, possible_parent_mask, of_parent_int_map,
                    parent_int_map, map_cache, proceed_mask, duplicated_mask, warn,
                    map_reg, reg_enable, reg_edge, reg_pol, chained, trigger, res, err >>

\* ct->chip.irq_unmask = irq_gc_unmask_enable_reg (line 307): the line's
\* mask is written to ct->regs.enable and its bit is set in gc->mask_cache,
\* under the generic-chip lock.
irq_gc_unmask_enable_reg ==
    /\ pc = "running"
    /\ ~gc_lock
    /\ \E irq \in CallbackLines :
          /\ reg_enable' = {irq}
          /\ mask_cache' = mask_cache \cup {irq}
          /\ ev' = [op |-> "irq_unmask", irq |-> irq]
    /\ gc_lock' = FALSE
    /\ UNCHANGED << smp, drm, pc, core, have_lpc_irq_bug, possible_parent_mask, of_parent_int_map,
                    parent_int_map, map_cache, proceed_mask, duplicated_mask, warn,
                    map_reg, reg_disable, reg_edge, reg_pol, chained, trigger, res, err >>

\* The system is suspended and the controller loses its registers: what
\* iointc_resume (gc->resume, line 302) finds when it is called.
suspend_lose_registers ==
    /\ pc = "running"
    /\ ev.op # "suspend"
    /\ \E reset \in ResetValues :
          /\ reg_edge' = reset
          /\ reg_pol' = reset
    /\ map_reg' = [l \in Lines |-> 0]
    /\ reg_disable' = {}
    /\ reg_enable' = {}
    /\ ev' = [op |-> "suspend"]
    /\ UNCHANGED << smp, drm, pc, core, have_lpc_irq_bug, possible_parent_mask, of_parent_int_map,
                    parent_int_map, map_cache, proceed_mask, duplicated_mask, warn,
                    mask_cache, gc_lock, chained, trigger, res, err >>

NextGc ==
    \/ of_init_alloc
    \/ of_init_parents
    \/ of_init_read_map
    \/ of_init_domain
    \/ of_init_quiesce
    \/ validate_parent_mask
    \/ of_init_set_core
    \/ of_init_gc
    \/ of_init_install
    \/ of_init_return
    \/ irq_gc_mask_disable_reg
    \/ irq_gc_unmask_enable_reg
    \/ suspend_lose_registers
    \/ iointc_resume
    \/ iointc_chained_handle_irq

SpecGc ==
    Init /\ [][NextGc]_vars

(***************************************************************************)
(* The legacy CRTC helpers: drm_crtc_helper_set_mode and                   *)
(* drm_helper_connector_dpms on a device with two CRTCs                    *)
(***************************************************************************)

DRM_MODE_DPMS_ON == 0

DRM_MODE_DPMS_OFF == 3

\* a NULL encoder or crtc pointer
DrmNull == -1

\* number of encoders and of connectors of the device
MaxEncoders == 2

MaxConnectors == 2

DrmEncoders ==
    0 .. (MaxEncoders - 1)

DrmConnectors ==
    0 .. (MaxConnectors - 1)

\* the CRTC the helpers are called for, and another CRTC of the device
DrmCrtcs ==
    { 0, 1 }

\* drm_for_each_encoder: the encoders in list order
EncoderList ==
    [k \in 1 .. MaxEncoders |-> k - 1]

\* one call made by a helper: the function, the object it is called for and
\* the value passed (dpms calls) or returned (fixup, mode_set, duplicate)
DrmCall(fn, obj, val) ==
    [fn |-> fn, obj |-> obj, val |-> val]

\* lines 88-106
drm_helper_encoder_in_use(d, encoder) ==
    \E connector \in DrmConnectors : d.conn_enc[connector] = encoder

\* lines 120-136
drm_helper_crtc_in_use(d, crtc) ==
    \E encoder \in DrmEncoders :
        /\ d.enc_crtc[encoder] = crtc
        /\ drm_helper_encoder_in_use(d, encoder)

\* the encoders a loop of drm_crtc_helper_set_mode does not skip:
\* encoder->crtc == crtc and encoder->helper_private != NULL
Attached(d, crtc) ==
    SelectSeq(EncoderList,
              LAMBDA e : d.enc_crtc[e] = crtc /\ d.enc_funcs[e] # "none")

\* a callback of the encoder's helper funcs, if the driver provides it
EncoderCallback(d, e, fn, val) ==
    IF d.enc_funcs[e] = "full" THEN << DrmCall(fn, e, val) >> ELSE << >>

\* lines 139-155
drm_encoder_disable(d, e) ==
    IF d.enc_funcs[e] = "none" THEN << >>
    ELSE << DrmCall("drm_bridge_disable", e, 0) >>
         \o EncoderCallback(d, e, "encoder.disable", 0)
         \o << DrmCall("drm_bridge_post_disable", e, 0) >>

\* lines 220-239: unused encoders and the encoders get_crtc reports on
\* another CRTC are disabled
RECURSIVE drm_crtc_prepare_encoders(_, _, _)
drm_crtc_prepare_encoders(d, encs, rerouted) ==
    IF encs = << >> THEN << >>
    ELSE LET e == Head(encs)
         IN  (IF d.enc_funcs[e] # "none" /\ d.enc_crtc[e] = DrmNull
              THEN drm_encoder_disable(d, e) ELSE << >>)
             \o (IF d.enc_funcs[e] = "full" /\ e \in rerouted
                 THEN drm_encoder_disable(d, e) ELSE << >>)
             \o drm_crtc_prepare_encoders(d, Tail(encs), rerouted)

\* lines 307-328: the fixups of the attached encoders up to the first
\* rejection; out.stage and out.enc name the callback that rejects
RECURSIVE EncoderFixups(_, _, _)
EncoderFixups(d, encs, out) ==
    IF encs = << >> THEN [ok |-> TRUE, calls |-> << >>]
    ELSE LET e == Head(encs)
             rest == EncoderFixups(d, Tail(encs), out)
         IN  IF out.stage = "bridge" /\ out.enc = e
             THEN [ok |-> FALSE,
                   calls |-> << DrmCall("drm_bridge_mode_fixup", e, 0) >>]
             ELSE IF out.stage = "encoder" /\ out.enc = e /\ d.enc_funcs[e] = "full"
             THEN [ok |-> FALSE,
                   calls |-> << DrmCall("drm_bridge_mode_fixup", e, 1),
                                DrmCall("encoder.mode_fixup", e, 0) >>]
             ELSE [ok |-> rest.ok,
                   calls |-> << DrmCall("drm_bridge_mode_fixup", e, 1) >>
                             \o EncoderCallback(d, e, "encoder.mode_fixup", 1)
                             \o rest.calls]

\* the body of one of the three later encoder loops, for one encoder
EncoderStage(d, e, stage) ==
    CASE stage = "prepare" ->
            << DrmCall("drm_bridge_disable", e, 0) >>
            \o EncoderCallback(d, e, "encoder.prepare", 0)
            \o << DrmCall("drm_bridge_post_disable", e, 0) >>
      [] stage = "mode_set" ->
            EncoderCallback(d, e, "encoder.mode_set", 0)
            \o << DrmCall("drm_bridge_mode_set", e, 0) >>
      [] stage = "commit" ->
            << DrmCall("drm_bridge_pre_enable", e, 0) >>
            \o EncoderCallback(d, e, "encoder.commit", 0)
            \o << DrmCall("drm_bridge_enable", e, 0) >>

\* lines 340-358, 374-387, 392-407
RECURSIVE ForEachAttached(_, _, _)
ForEachAttached(d, encs, stage) ==
    IF encs = << >> THEN << >>
    ELSE EncoderStage(d, Head(encs), stage) \o ForEachAttached(d, Tail(encs), stage)

\* variant: crtc->hwmode is not put back
RestoreCrtcKeepHwmode(cur, saved) ==
    [cur EXCEPT !.enabled = saved.enabled, !.mode = saved.mode,
                !.x = saved.x, !.y = saved.y]

\* lines 419-425: if (!ret) the five saved fields are put back
RestoreCrtc(cur, saved) ==
    [cur EXCEPT !.enabled = saved.enabled, !.mode = saved.mode,
                !.hwmode = saved.hwmode, !.x = saved.x, !.y = saved.y]

\* lines 261-428.  req is the mode and offsets asked for; out says what the
\* callbacks and the allocator answer: the stage that fails if it is reached
\* ("dup", "bridge" or "encoder" of out.enc, "crtc", "mode_set" returning
\* out.rc, "none"), whether a fixup rewrites adjusted_mode, and the encoders
\* get_crtc reports on another CRTC.  The result is the return value, the
\* CRTC's fields at return and the calls made, in order.
SetMode(d, crtc, req, out) ==
    LET saved == d.crtc[crtc]
        encs == Attached(d, crtc)
        used == [saved EXCEPT !.enabled = TRUE]
        upfront == [used EXCEPT !.mode = req.mode, !.x = req.x, !.y = req.y]
        dup == DrmCall("drm_mode_duplicate", crtc, IF out.stage = "dup" THEN 0 ELSE 1)
        fix == EncoderFixups(d, encs, out)
        crtc_rejects == d.crtc_funcs = "full" /\ out.stage = "crtc"
        crtc_fix == IF d.crtc_funcs = "full"
                    THEN << DrmCall("crtc.mode_fixup", crtc, IF crtc_rejects THEN 0 ELSE 1) >>
                    ELSE << >>
        fixed == IF out.adjusted /\ fix.calls \o crtc_fix # << >>
                 THEN "adjusted" ELSE req.mode
        programmed == [upfront EXCEPT !.hwmode = fixed]
        rc == IF out.stage = "mode_set" THEN out.rc ELSE 0
        to_mode_set == fix.calls \o crtc_fix
                       \o ForEachAttached(d, encs, "prepare")
                       \o drm_crtc_prepare_encoders(d, EncoderList, out.rerouted)
                       \o << DrmCall("crtc.prepare", crtc, 0),
                             DrmCall("crtc.mode_set", crtc, rc) >>
        destroy == << DrmCall("drm_mode_destroy", crtc, 0) >>
    IN  IF ~drm_helper_crtc_in_use(d, crtc)
        THEN [ok |-> TRUE, crtc |-> [saved EXCEPT !.enabled = FALSE], calls |-> << >>]
        ELSE IF out.stage = "dup"
        THEN [ok |-> FALSE, crtc |-> [used EXCEPT !.enabled = saved.enabled],
              calls |-> << dup >>]
        ELSE IF ~fix.ok
        THEN [ok |-> FALSE, crtc |-> RestoreCrtc(upfront, saved),
              calls |-> << dup >> \o fix.calls \o destroy]
        ELSE IF crtc_rejects
        THEN [ok |-> FALSE, crtc |-> RestoreCrtc(upfront, saved),
              calls |-> << dup >> \o fix.calls \o crtc_fix \o destroy]
        ELSE IF rc # 0
        THEN [ok |-> FALSE, crtc |-> RestoreCrtc(programmed, saved),
              calls |-> << dup >> \o to_mode_set \o destroy]
        ELSE [ok |-> TRUE, crtc |-> programmed,
              calls |-> << dup >> \o to_mode_set
                        \o ForEachAttached(d, encs, "mode_set")
                        \o << DrmCall("crtc.commit", crtc, 0) >>
                        \o ForEachAttached(d, encs, "commit")
                        \o << DrmCall("drm_calc_timestamping_constants", crtc, 0) >>
                        \o destroy]

\* the smallest dpms value of a set of connectors, DRM_MODE_DPMS_OFF if none
LowestDpms(d, connectors) ==
    LET vals == { d.conn_dpms[c] : c \in connectors } \cup { DRM_MODE_DPMS_OFF }
    IN  CHOOSE v \in vals : \A w \in vals : v <= w

\* lines 772-783
drm_helper_choose_encoder_dpms(d, encoder) ==
    LowestDpms(d, { c \in DrmConnectors : d.conn_enc[c] = encoder })

\* lines 809-820
drm_helper_choose_crtc_dpms(d, crtc) ==
    LowestDpms(d, { c \in DrmConnectors :
                      /\ d.conn_enc[c] # DrmNull
                      /\ d.enc_crtc[d.conn_enc[c]] = crtc })

\* lines 786-807
drm_helper_encoder_dpms(d, encoder, mode) ==
    IF d.enc_funcs[encoder] = "none" THEN << >>
    ELSE << DrmCall(IF mode = DRM_MODE_DPMS_ON THEN "drm_bridge_pre_enable"
                    ELSE "drm_bridge_disable", encoder, 0) >>
         \o EncoderCallback(d, encoder, "encoder.dpms", mode)
         \o << DrmCall(IF mode = DRM_MODE_DPMS_ON THEN "drm_bridge_enable"
                       ELSE "drm_bridge_post_disable", encoder, 0) >>

\* variant: the encoder first in both directions
TowardsOnEncoderFirst(lvds, crtc_calls, encoder_calls) ==
    lvds \o encoder_calls \o crtc_calls

\* lines 861-873: from off to on, do crtc then encoder
TowardsOn(lvds, crtc_calls, encoder_calls) ==
    lvds \o crtc_calls \o encoder_calls

\* lines 876-890: from on to off, do encoder then crtc
TowardsOff(lvds, crtc_calls, encoder_calls) ==
    lvds \o encoder_calls \o crtc_calls

\* lines 847-895: the return value, the device at return and the calls made
ConnectorDpms(d, connector, mode) ==
    LET encoder == d.conn_enc[connector]
        crtc == IF encoder # DrmNull THEN d.enc_crtc[encoder] ELSE DrmNull
        old_dpms == d.conn_dpms[connector]
        d1 == [d EXCEPT !.conn_dpms[connector] = mode]
        encoder_dpms == IF encoder # DrmNull
                        THEN drm_helper_choose_encoder_dpms(d1, encoder)
                        ELSE DRM_MODE_DPMS_OFF
        encoder_calls == IF encoder # DrmNull
                         THEN drm_helper_encoder_dpms(d1, encoder, encoder_dpms)
                         ELSE << >>
        crtc_calls == IF crtc # DrmNull /\ d.crtc_funcs = "full"
                      THEN << DrmCall("crtc.dpms", crtc,
                                      drm_helper_choose_crtc_dpms(d1, crtc)) >>
                      ELSE << >>
        lvds_on == IF d.conn_type[connector] = "LVDS"
                   THEN << DrmCall("turn_on_lvds", connector, 0) >> ELSE << >>
        lvds_off == IF d.conn_type[connector] = "LVDS"
                    THEN << DrmCall("turn_off_lvds", connector, 0) >> ELSE << >>
    IN  IF mode = old_dpms THEN [ret |-> 0, dev |-> d, calls |-> << >>]
        ELSE IF mode < old_dpms
        THEN [ret |-> 0, dev |-> d1,
              calls |-> TowardsOn(lvds_on, crtc_calls, encoder_calls)]
        ELSE [ret |-> 0, dev |-> d1,
              calls |-> TowardsOff(lvds_off, crtc_calls, encoder_calls)]

\* the variables of the interrupt controller, which the helpers do not touch
iointc_vars ==
    << pc, core, have_lpc_irq_bug, possible_parent_mask, of_parent_int_map,
       parent_int_map, map_cache, proceed_mask, duplicated_mask, warn,
       map_reg, reg_disable, reg_enable, reg_edge, reg_pol, mask_cache,
       gc_lock, chained, trigger, res, err, ev >>

\* the helper funcs a driver provides: every optional callback ("full"),
\* none of them ("minimal"), or every one but with encoder 0 left without
\* helper_private ("partial")
DriverStyles ==
    { "full", "minimal", "partial" }

EncoderFuncs(style) ==
    [e \in DrmEncoders |->
        IF style = "minimal" THEN "minimal"
        ELSE IF style = "partial" /\ e = 0 THEN "none"
        ELSE "full"]

\* struct drm_crtc after allocation, and as an earlier modeset left it
CrtcFresh ==
    [enabled |-> FALSE, mode |-> "none", hwmode |-> "none", x |-> 0, y |-> 0]

CrtcConfigured ==
    [enabled |-> TRUE, mode |-> "1024x768", hwmode |-> "1024x768", x |-> 0, y |-> 0]

\* the devices the helpers are called on: a connector is attached to its
\* own encoder, to encoder 0 or to nothing; encoder 0 drives either CRTC or
\* none, the other encoders CRTC 0 or none; connector 0 is the LVDS panel.
\* Every connector starts with the dpms value dpms and CRTC 0 as crtc0.
DrmDevices(dpms, crtc0) ==
    { [conn_enc |-> ce, conn_dpms |-> [c \in DrmConnectors |-> dpms],
       conn_type |-> [c \in DrmConnectors |-> IF c = 0 THEN "LVDS" ELSE "VGA"],
       enc_crtc |-> ec,
       enc_funcs |-> EncoderFuncs(style),
       crtc_funcs |-> IF style = "minimal" THEN "minimal" ELSE "full",
       crtc |-> [c \in DrmCrtcs |-> IF c = 0 THEN crtc0 ELSE CrtcFresh],
       last |-> [op |-> "none"]] :
        ce \in { f \in [DrmConnectors -> DrmEncoders \cup {DrmNull}] :
                   \A c \in DrmConnectors : f[c] \in {DrmNull, 0, c} },
        ec \in { f \in [DrmEncoders -> DrmCrtcs \cup {DrmNull}] :
                   \A e \in DrmEncoders : e # 0 => f[e] # 1 },
        style \in DriverStyles }

\* the modes and offsets drm_crtc_helper_set_mode is called with
SetModeRequests ==
    { [mode |-> "1024x768", x |-> 0, y |-> 0],
      [mode |-> "800x600", x |-> 8, y |-> 16] }

\* what the allocator and the driver's callbacks answer during one call
SetModeOutcomes ==
    { [stage |-> s, enc |-> 0, rc |-> 0, adjusted |-> FALSE, rerouted |-> {}] :
        s \in { "dup", "crtc" } }
    \cup
    { [stage |-> s, enc |-> e, rc |-> 0, adjusted |-> FALSE, rerouted |-> {}] :
        s \in { "bridge", "encoder" }, e \in DrmEncoders }
    \cup
    { [stage |-> "mode_set", enc |-> 0, rc |-> rc, adjusted |-> a, rerouted |-> r] :
        rc \in { -22, 1 }, a \in BOOLEAN, r \in { {}, DrmEncoders } }
    \cup
    { [stage |-> "none", enc |-> 0, rc |-> 0, adjusted |-> a, rerouted |-> r] :
        a \in BOOLEAN, r \in { {}, DrmEncoders } }

\* the CRTCs drm_crtc_helper_set_mode is called for
SetModeCrtcs ==
    { 0 }

\* the dpms values drm_helper_connector_dpms is called with
DpmsRequests ==
    DRM_MODE_DPMS_ON .. DRM_MODE_DPMS_OFF

drm_crtc_helper_set_mode ==
    /\ \E crtc \in SetModeCrtcs, req \in SetModeRequests, out \in SetModeOutcomes :
          \E r \in { SetMode(drm, crtc, req, out) } :
              drm' = [drm EXCEPT
                        !.crtc[crtc] = r.crtc,
                        !.last = [op |-> "set_mode", crtc |-> crtc, req |-> req,
                                  ok |-> r.ok, calls |-> r.calls]]
    /\ UNCHANGED << iointc_vars, smp >>

drm_helper_connector_dpms ==
    /\ \E connector \in DrmConnectors, mode \in DpmsRequests :
          \E r \in { ConnectorDpms(drm, connector, mode) } :
              drm' = [r.dev EXCEPT
                        !.last = [op |-> "connector_dpms", connector |-> connector,
                                  mode |-> mode, old |-> drm.conn_dpms[connector],
                                  ret |-> r.ret, calls |-> r.calls]]
    /\ UNCHANGED << iointc_vars, smp >>

\* the interrupt controller is left as Init has it, not yet probed
InitUnprobed ==
    /\ pc = "alloc"
    /\ core = 0
    /\ have_lpc_irq_bug = FALSE
    /\ possible_parent_mask = {}
    /\ of_parent_int_map = Unread
    /\ parent_int_map = NoMap
    /\ map_cache = NoCache
    /\ proceed_mask = {}
    /\ duplicated_mask = {}
    /\ warn = << >>
    /\ map_reg = [l \in Lines |-> 0]
    /\ reg_disable = {}
    /\ reg_enable = {}
    /\ reg_edge = {}
    /\ reg_pol = {}
    /\ mask_cache = {}
    /\ gc_lock = FALSE
    /\ chained = {}
    /\ trigger = [l \in Lines |-> "NONE"]
    /\ res = [priv |-> "none", base |-> "none", domain |-> "none"]
    /\ err = Ret("none", "")
    /\ ev = [op |-> "none"]

InitDrm(devices) ==
    /\ InitUnprobed
    /\ drm \in devices
    /\ smp = NoSmp

NextSetMode ==
    drm_crtc_helper_set_mode

InitSetMode ==
    InitDrm(DrmDevices(DRM_MODE_DPMS_ON, CrtcFresh)
            \cup DrmDevices(DRM_MODE_DPMS_ON, CrtcConfigured))

SpecSetMode ==
    InitSetMode /\ [][NextSetMode]_vars

NextDpms ==
    drm_helper_connector_dpms

InitDpms ==
    InitDrm(DrmDevices(DRM_MODE_DPMS_OFF, CrtcConfigured)
            \cup DrmDevices(DRM_MODE_DPMS_ON, CrtcConfigured))

SpecDpms ==
    InitDpms /\ [][NextDpms]_vars

(***************************************************************************)
(* arch/mips/loongson64/loongson-3/smp.c: bring-up and offlining of one    *)
(* secondary CPU through its mailbox, the boot CPU driving it.  Each CPU   *)
(* takes one step at a time; the mailbox is an uncached register file and  *)
(* every write to it is followed by __wbflush(), so a step sees the writes *)
(* of the steps before it.                                                 *)
(***************************************************************************)

\* linux/cpu.h
CPU_ONLINE ==
    2

CPU_DEAD ==
    7

\* offset of the mailbox in a core's IPI register block: ipi_mailbox_buf[]
\* is the block's base + BUF, and play_dead reads 0x20(base) .. 0x38(base)
BUF ==
    32

\* the address of smp_bootstrap, any non-zero value
smp_bootstrap ==
    64

\* the number of loongson3_boot_secondary calls explored
MaxBoots ==
    3

\* the idle tasks a cpu_up may hand to loongson3_boot_secondary
MaxIdle ==
    2

IdleTasks ==
    1 .. MaxIdle

\* task_thread_info(idle) and __KSTK_TOS(idle), as addresses
task_thread_info(idle) ==
    idle * 256

KSTK_TOS(idle) ==
    task_thread_info(idle) + 224

\* unsigned long startargs[4]: initial PC, SP, GP and a1 (lines 439-442)
StartArgs(idle) ==
    [k \in 0 .. 3 |->
        IF k = 0 THEN smp_bootstrap
        ELSE IF k = 1 THEN KSTK_TOS(idle)
        ELSE IF k = 2 THEN task_thread_info(idle)
        ELSE 0]

\* the offsets of the four mailbox slots from ipi_mailbox_buf[cpu]
MailboxSlots ==
    { 0, 8, 16, 24 }

\* variant: the PC slot is written first
BootWriteOrderPcFirst ==
    << 0, 1, 2, 3 >>

\* lines 449-456: startargs[3], [2], [1] and last [0] go to +0x18, +0x10,
\* +0x8 and +0x0
BootWriteOrder ==
    << 3, 2, 1, 0 >>

\* ld reg, off(base): the mailbox slot a load of play_dead reads
MailboxLoad(s, off) ==
    s.mbox[off - BUF]

\* the step leaves the interrupt controller and the DRM device alone
SmpStep(new) ==
    /\ smp' = new
    /\ UNCHANGED << iointc_vars, drm >>

\* lines 417-418: smp_setup zeroes the PC slot of every mailbox
loongson3_smp_setup ==
    /\ smp.bpc = "setup"
    /\ SmpStep([smp EXCEPT !.mbox[0] = 0, !.bpc = "idle"])

\* lines 747-759: the CPUHP_MIPS_SOC_PREPARE startup callback of a cpu_up for
\* an offline CPU turns the core's clock on
loongson3_enable_clock ==
    /\ smp.bpc = "idle"
    /\ ~smp.online
    /\ smp.boots < MaxBoots
    /\ SmpStep([smp EXCEPT !.clock = TRUE, !.bpc = "bringup"])

\* lines 430-447: loongson3_boot_secondary fills startargs[] from idle
loongson3_boot_secondary ==
    /\ smp.bpc = "bringup"
    /\ \E idle \in IdleTasks :
          SmpStep([smp EXCEPT !.startargs = StartArgs(idle),
                              !.bstep = 0,
                              !.boots = @ + 1,
                              !.bpc = "boot"])

\* lines 449-456: one loongson3_ipi_write64; after the fourth the function
\* returns and __cpu_up waits for the CPU to call in
boot_secondary_write ==
    /\ smp.bpc = "boot"
    /\ smp.bstep < 4
    /\ LET k == BootWriteOrder[smp.bstep + 1]
       IN  SmpStep([smp EXCEPT !.mbox[8 * k] = smp.startargs[k],
                               !.bstep = @ + 1,
                               !.bpc = IF smp.bstep = 3 THEN "wait_callin" ELSE "boot"])

\* __cpu_up returns once the secondary has set its bit in cpu_callin_map
cpu_up_return ==
    /\ smp.bpc = "wait_callin"
    /\ smp.callin
    /\ SmpStep([smp EXCEPT !.bpc = "idle"])

\* lines 460-478: cpu_down has the online, idle secondary run
\* loongson3_cpu_disable and then enter play_dead from its idle loop, while
\* the boot CPU goes on to loongson3_cpu_die
loongson3_cpu_disable ==
    /\ smp.bpc = "idle"
    /\ smp.spc = "online"
    /\ smp.clock
    /\ SmpStep([smp EXCEPT !.online = FALSE,
                           !.callin = FALSE,
                           !.spc = "play_dead",
                           !.bpc = "cpu_die"])

\* lines 482-488: the loop is left by the read that returns CPU_DEAD
loongson3_cpu_die ==
    /\ smp.bpc = "cpu_die"
    /\ smp.cpu_state = CPU_DEAD
    /\ SmpStep([smp EXCEPT !.bpc = "teardown"])

\* lines 733-745: the teardown callback gates the core's clock, unless the
\* CPU is not a 3A R1 and WORKAROUND_CPUHOTPLUG is set
loongson3_disable_clock ==
    /\ smp.bpc = "teardown"
    /\ \E gated \in BOOLEAN :
          SmpStep([smp EXCEPT !.clock = ~gated, !.bpc = "idle"])

\* lines 703-731 and 495-514: play_dead runs the flush loop of
\* play_dead_at_ckseg1 over every set of the L1 caches
play_dead_flush ==
    /\ smp.clock
    /\ smp.spc = "play_dead"
    /\ SmpStep([smp EXCEPT !.l1 = "flushed", !.spc = "store_dead"])

\* lines 515-518: li val, 0x7; sw val, (state_addr); sync; cache 21
play_dead_store ==
    /\ smp.clock
    /\ smp.spc = "store_dead"
    /\ SmpStep([smp EXCEPT !.cpu_state = 7, !.spc = "wait"])

\* lines 538-543: ld initfunc, 0x20(base); beqz initfunc, 1b
play_dead_read_pc ==
    /\ smp.clock
    /\ smp.spc = "wait"
    /\ LET initfunc == MailboxLoad(smp, 32)
       IN  /\ initfunc # smp.regs.initfunc \/ initfunc # 0
           /\ SmpStep([smp EXCEPT !.regs.initfunc = initfunc,
                                  !.spc = IF initfunc = 0 THEN "wait" ELSE "read_sp"])

\* line 544: ld $sp, 0x28(base)
play_dead_read_sp ==
    /\ smp.clock
    /\ smp.spc = "read_sp"
    /\ SmpStep([smp EXCEPT !.regs.sp = MailboxLoad(smp, 40), !.spc = "read_gp"])

\* line 545: ld $gp, 0x30(base)
play_dead_read_gp ==
    /\ smp.clock
    /\ smp.spc = "read_gp"
    /\ SmpStep([smp EXCEPT !.regs.gp = MailboxLoad(smp, 48), !.spc = "read_a1"])

\* lines 546-548: ld $a1, 0x38(base); jr initfunc.  The CPU runs cached
\* code from here on.
play_dead_jump ==
    /\ smp.clock
    /\ smp.spc = "read_a1"
    /\ SmpStep([smp EXCEPT !.regs.a1 = MailboxLoad(smp, 56),
                           !.started = [pc |-> smp.regs.initfunc,
                                        sp |-> smp.regs.sp,
                                        gp |-> smp.regs.gp],
                           !.l1 = "dirty",
                           !.spc = "init_secondary"])

\* variant: no per_cpu(cpu_state, cpu) = CPU_ONLINE
loongson3_init_secondary_no_reset ==
    /\ smp.clock
    /\ smp.spc = "init_secondary"
    /\ SmpStep([smp EXCEPT !.spc = "callin"])

\* lines 332-369; the interrupt mask and the count register it sets are not
\* part of this state
loongson3_init_secondary ==
    /\ smp.clock
    /\ smp.spc = "init_secondary"
    /\ SmpStep([smp EXCEPT !.cpu_state = CPU_ONLINE, !.spc = "callin"])

\* start_secondary between init_secondary and smp_finish: the CPU sets its
\* bits in cpu_callin_map and cpu_online_mask
start_secondary_callin ==
    /\ smp.clock
    /\ smp.spc = "callin"
    /\ SmpStep([smp EXCEPT !.callin = TRUE, !.online = TRUE, !.spc = "smp_finish"])

\* lines 371-382: smp_finish zeroes the PC slot; the CPU then idles
loongson3_smp_finish ==
    /\ smp.clock
    /\ smp.spc = "smp_finish"
    /\ SmpStep([smp EXCEPT !.mbox[0] = 0, !.spc = "online"])

\* The boot CPU enters smp_setup.  The secondary is where the firmware left
\* it, in the mailbox loop that play_dead repeats, with its clock on and an
\* empty mailbox.
InitSmp ==
    /\ InitUnprobed
    /\ drm = NoDrm
    /\ smp = [bpc |-> "setup", bstep |-> 0, boots |-> 0,
              startargs |-> [k \in 0 .. 3 |-> 0],
              mbox |-> [o \in MailboxSlots |-> 0],
              clock |-> TRUE, cpu_state |-> 0,
              online |-> FALSE, callin |-> FALSE,
              spc |-> "wait",
              regs |-> [initfunc |-> 0, sp |-> 0, gp |-> 0, a1 |-> 0],
              started |-> [pc |-> 0, sp |-> 0, gp |-> 0],
              l1 |-> "dirty"]

NextSmp ==
    \/ loongson3_smp_setup
    \/ loongson3_enable_clock
    \/ loongson3_boot_secondary
    \/ boot_secondary_write
    \/ cpu_up_return
    \/ loongson3_cpu_disable
    \/ loongson3_cpu_die
    \/ loongson3_disable_clock
    \/ play_dead_flush
    \/ play_dead_store
    \/ play_dead_read_pc
    \/ play_dead_read_sp
    \/ play_dead_read_gp
    \/ play_dead_jump
    \/ loongson3_init_secondary
    \/ start_secondary_callin
    \/ loongson3_smp_finish

SpecSmp ==
    InitSmp /\ [][NextSmp]_vars

(***************************************************************************)
(* Vocabulary of the properties                                            *)
(***************************************************************************)

\* validate_parent_mask has returned
Resolved ==
    pc \in {"set_core", "revalidated"}

\* the lowest-numbered available parent
LowestAvailable ==
    CHOOSE p \in possible_parent_mask : \A q \in possible_parent_mask : p <= q

\* the available parents that claim line l in the hint table
Claimants(l) ==
    { c \in possible_parent_mask : l \in of_parent_int_map[c] }

\* the parents whose resulting claim set holds line l
Owners(l) ==
    { c \in Parents : l \in parent_int_map[c] }

\* the parents named by the parent nibble of line l's map byte
NibbleParents(l) ==
    { c \in Parents : (map_cache[l] \div (2 ^ (IOINTC_SHIFT_INTx + c))) % 2 = 1 }

\* the diagnostics of one kind emitted for line l
Warnings(kind, l) ==
    { k \in 1 .. Len(warn) : warn[k].kind = kind /\ warn[k].irq = l }

(***************************************************************************)
(* C1: for every hint table and non-empty set of available parents,        *)
(* validate_parent_mask returns with the 32 lines partitioned: each line   *)
(* is in the claim set of exactly one parent, that parent is available     *)
(* (and is the one the map byte names), and unavailable parents end with   *)
(* an empty claim set.                                                     *)
(***************************************************************************)
C1_Partition ==
    Resolved =>
        /\ \A l \in Lines :
              /\ Cardinality(Owners(l)) = 1
              /\ Owners(l) \subseteq possible_parent_mask
              /\ NibbleParents(l) = Owners(l)
        /\ \A c \in Parents \ possible_parent_mask : parent_int_map[c] = {}

C1_Witness ==
    /\ Resolved
    /\ Cardinality(possible_parent_mask) = 2
    /\ \E l \in Lines : Claimants(l) = {}
    /\ \E l \in Lines : Cardinality(Claimants(l)) = 2
    /\ \E l \in Lines : \E c \in Parents \ possible_parent_mask : l \in of_parent_int_map[c]
    /\ \A c \in possible_parent_mask : parent_int_map[c] # {}

(***************************************************************************)
(* C2: a line that no available parent claims in the hint table is         *)
(* assigned to the lowest-numbered available parent.                       *)
(***************************************************************************)
C2_HomelessToLowest ==
    (pc = "set_core") =>
        \A l \in Lines :
            Claimants(l) = {} => Owners(l) = {LowestAvailable}

C2_Witness ==
    /\ pc = "set_core"
    /\ LowestAvailable = 2
    /\ Cardinality(possible_parent_mask) = 2
    /\ \E l \in Lines : Claimants(l) = {} /\ l \in parent_int_map[2]
    /\ \E l \in Lines : Claimants(l) = {3}

(***************************************************************************)
(* C3: a line claimed by two or more available parents is assigned to the  *)
(* lowest-numbered available parent and removed from every other claim     *)
(* set; every diagnostic, homeless or duplicated, names that same parent.  *)
(***************************************************************************)
C3_DuplicatedToLowest ==
    (pc = "set_core") =>
        /\ \A l \in Lines :
              Cardinality(Claimants(l)) >= 2 =>
                  /\ l \in parent_int_map[LowestAvailable]
                  /\ \A c \in Parents \ {LowestAvailable} : l \notin parent_int_map[c]
        /\ \A k \in 1 .. Len(warn) : warn[k].parent = LowestAvailable

C3_Witness ==
    /\ pc = "set_core"
    /\ LowestAvailable = 1
    /\ \E l \in Lines : Claimants(l) = {2, 3} /\ l \in parent_int_map[1]
    /\ \E l \in Lines : Cardinality(Claimants(l)) = 3
    /\ \E l \in Lines : Claimants(l) = {}

(***************************************************************************)
(* C4: a line claimed by exactly one parent, that parent being available,  *)
(* stays with that parent.                                                 *)
(***************************************************************************)
C4_UniqueKept ==
    (pc = "set_core") =>
        \A l \in Lines : \A c \in possible_parent_mask :
            { d \in Parents : l \in of_parent_int_map[d] } = {c} => Owners(l) = {c}

C4_Witness ==
    /\ pc = "set_core"
    /\ \E l \in Lines :
          /\ { d \in Parents : l \in of_parent_int_map[d] } = {3}
          /\ 3 \in possible_parent_mask
          /\ LowestAvailable # 3
          /\ l \in parent_int_map[3]
    /\ \E l \in Lines : Claimants(l) = {}
    /\ \E l \in Lines : Cardinality(Claimants(l)) >= 2

(***************************************************************************)
(* C6: running validate_parent_mask again on its own result, taken as the  *)
(* hint table, with the same available parents, yields the same claim sets *)
(* and map bytes and emits no diagnostic.                                  *)
(***************************************************************************)
C6_Idempotent ==
    [][ (pc = "set_core" /\ pc' = "revalidated") =>
            /\ parent_int_map' = parent_int_map
            /\ map_cache' = map_cache
            /\ warn' = << >> ]_vars

C6_Witness ==
    /\ pc = "revalidated"
    /\ warn = << >>
    /\ of_parent_int_map = parent_int_map
    /\ 0 \notin possible_parent_mask
    /\ Cardinality({ c \in Parents : parent_int_map[c] # {} }) >= 2

(***************************************************************************)
(* C9: exactly one homeless diagnostic for each line no available parent   *)
(* claims, exactly one duplicated diagnostic for each line two or more     *)
(* available parents claim, each naming the line and the fallback parent;  *)
(* none for a line exactly one available parent claims; never both kinds   *)
(* for one line.                                                           *)
(***************************************************************************)
C9_Diagnostics ==
    (pc = "set_core") =>
        /\ \A l \in Lines :
              /\ Cardinality(Warnings("homeless", l)) =
                     (IF Claimants(l) = {} THEN 1 ELSE 0)
              /\ Cardinality(Warnings("duplicated", l)) =
                     (IF Cardinality(Claimants(l)) >= 2 THEN 1 ELSE 0)
        /\ \A k \in 1 .. Len(warn) :
              /\ warn[k].irq \in Lines
              /\ warn[k].kind \in {"homeless", "duplicated"}
              /\ warn[k].parent = LowestAvailable

C9_Witness ==
    /\ pc = "set_core"
    /\ \E l \in Lines : Claimants(l) = {} /\ Cardinality(Warnings("homeless", l)) = 1
    /\ \E l \in Lines :
          Cardinality(Claimants(l)) = 4 /\ Cardinality(Warnings("duplicated", l)) = 1
    /\ \E l \in Lines : Cardinality(Claimants(l)) = 1 /\ Warnings("homeless", l) = {}
    /\ Len(warn) = 2

(***************************************************************************)
(* C8: within the homeless loop and within the duplicated loop the order   *)
(* in which the lines are taken does not matter: whatever the order, the   *)
(* claim sets and the map bytes are those the ascending order of the code  *)
(* produces.                                                               *)
(***************************************************************************)
C8_OrderIndependent ==
    (pc = "set_core") =>
        /\ parent_int_map =
               ValidateMasks(possible_parent_mask, of_parent_int_map, NoMap).map
        /\ map_cache =
               GenMapCache(0, ValidateMasks(possible_parent_mask, of_parent_int_map,
                                            NoMap).map, NoCache)

\* both loops have taken their lines in descending order
C8_Witness ==
    /\ pc = "set_core"
    /\ Len(warn) = 4
    /\ warn[1].kind = "homeless" /\ warn[2].kind = "homeless"
    /\ warn[1].irq > warn[2].irq
    /\ warn[3].kind = "duplicated" /\ warn[4].kind = "duplicated"
    /\ warn[3].irq > warn[4].irq

\* iointc_of_init has looked up the parent interrupts and found none
NoParentFound ==
    /\ possible_parent_mask = {}
    /\ res.base # "none"
    /\ pc # "parents"

(***************************************************************************)
(* C5: when no parent interrupt could be obtained, iointc_of_init returns  *)
(* an error before any assignment is computed, and validate_parent_mask is *)
(* never reached with an empty possible_parent_mask.                       *)
(***************************************************************************)
C5_NoParentIsError ==
    /\ NoParentFound =>
          /\ pc = "failed"
          /\ err = Ret("-ENOMEM", "No parent")
          /\ parent_int_map = NoMap
          /\ map_cache = NoCache
          /\ warn = << >>
          /\ chained = {}
    /\ pc \in { "validate", "set_core", "gc", "install", "running" } =>
          possible_parent_mask # {}

C5_Witness ==
    /\ NoParentFound
    /\ pc = "failed"
    /\ err.ret = "-ENOMEM"

\* the pr_err lines of the failures that are not defects of the configuration
ResourceFailures ==
    { "cannot add IRQ domain", "unable to register IRQ domain" }

(***************************************************************************)
(* C7 as claimed: an empty set of available parents is the only            *)
(* configuration defect that makes iointc_of_init fail; with a non-empty   *)
(* set it fails only for want of a resource.                               *)
(***************************************************************************)
C7_OnlyNoParentFails ==
    (pc = "failed" /\ possible_parent_mask # {}) => err.msg \in ResourceFailures

(***************************************************************************)
(* C7 as amended: with a non-empty set of available parents,               *)
(* iointc_of_init fails for want of a resource or because the              *)
(* parent_int_map property is missing or shorter than four cells           *)
(* (-ENODEV, nothing read); once a four-cell table has been read, whatever *)
(* its content, it fails only for want of a resource.                      *)
(***************************************************************************)
C7_TableContentNeverFails ==
    /\ (pc = "failed" /\ possible_parent_mask # {}) =>
          \/ err.msg \in ResourceFailures
          \/ /\ err = Ret("-ENODEV", "No parent_int_map")
             /\ of_parent_int_map = Unread
    /\ (pc = "failed" /\ of_parent_int_map # Unread) => err.msg \in ResourceFailures

\* initialisation has succeeded on a table that leaves lines unclaimed and
\* gives a line to several available parents
C7_Witness ==
    /\ pc = "running"
    /\ err = Ret("0", "")
    /\ \E l \in Lines : Claimants(l) = {}
    /\ \E l \in Lines : Cardinality(Claimants(l)) >= 2

\* initialisation has computed the assignment and written it to the registers
AssignmentDone ==
    pc \in { "gc", "install", "running" }

(***************************************************************************)
(* C10: once initialisation has computed the assignment, no step of the    *)
(* driver (iointc_set_type, iointc_set_affinity, iointc_resume,            *)
(* iointc_chained_handle_irq, the rest of iointc_of_init) changes any      *)
(* parent's parent_int_map or any map_cache entry.                         *)
(***************************************************************************)
C10_AssignmentFrozen ==
    [][ AssignmentDone =>
            /\ parent_int_map' = parent_int_map
            /\ map_cache' = map_cache ]_vars

\* the registers have been lost (EDGE reading all ones) and restored by
\* iointc_resume, a trigger type has then been set, and a chained handler has
\* just run
C10_Witness ==
    /\ pc = "running"
    /\ trigger[BUGGY_LPC_IRQ] = "LEVEL_LOW"
    /\ reg_edge = Lines \ {BUGGY_LPC_IRQ}
    /\ map_reg = map_cache
    /\ ev.op = "chained_handle_irq"
    /\ Cardinality({ c \in Parents : parent_int_map[c] # {} }) >= 2

(***************************************************************************)
(* C11: the worked example.  With all four parents available and the       *)
(* hints INT0 = {5}, INT1 = {5, 6}, INT2 = INT3 = {}, validate_parent_mask *)
(* gives line 5 to parent 0, line 6 to parent 1 and every other line       *)
(* (0-4, 7-31) to parent 0.                                                *)
(***************************************************************************)
ExampleResolved ==
    /\ Resolved
    /\ possible_parent_mask = Parents
    /\ of_parent_int_map = [i \in Parents |-> IF i = 0 THEN {5}
                                              ELSE IF i = 1 THEN {5, 6} ELSE {}]

C11_Example ==
    ExampleResolved =>
        /\ \A l \in Lines : Owners(l) = IF l = 6 THEN {1} ELSE {0}
        /\ \A l \in Lines : NibbleParents(l) = IF l = 6 THEN {1} ELSE {0}
        /\ proceed_mask = Lines
        /\ duplicated_mask = {}

\* the example has been resolved: line 5 was duplicated, line 6 was neither
\* duplicated nor homeless, line 31 was homeless
C11_Witness ==
    /\ ExampleResolved
    /\ Cardinality(Warnings("duplicated", 5)) = 1
    /\ Cardinality(Warnings("homeless", 31)) = 1
    /\ Warnings("homeless", 6) = {}
    /\ Warnings("duplicated", 6) = {}

\* the positions of the call sequence calls at which a function of fns is called
CallsOf(calls, fns) ==
    { k \in 1 .. Len(calls) : calls[k].fn \in fns }

\* some connector of device d is routed to crtc through its encoder
UsedByConnector(d, crtc) ==
    \E c \in DrmConnectors :
        /\ d.conn_enc[c] # DrmNull
        /\ d.enc_crtc[d.conn_enc[c]] = crtc

\* during the call recorded in calls the mode could not be set: the mode
\* could not be duplicated, a mode_fixup said no, or the CRTC's mode_set
\* returned non-zero
ModeNotSet(calls) ==
    \E k \in 1 .. Len(calls) :
        \/ calls[k].fn = "drm_mode_duplicate" /\ calls[k].val = 0
        \/ /\ calls[k].fn \in { "drm_bridge_mode_fixup", "encoder.mode_fixup",
                                "crtc.mode_fixup" }
           /\ calls[k].val = 0
        \/ calls[k].fn = "crtc.mode_set" /\ calls[k].val # 0

(***************************************************************************)
(* C12: drm_crtc_helper_set_mode returns false exactly when the mode could *)
(* not be set (duplicating the mode failed, a bridge, encoder or CRTC      *)
(* mode_fixup rejected it, or the CRTC's mode_set returned non-zero); when *)
(* it returns false the CRTC's enabled, mode, hwmode, x and y are what     *)
(* they were before the call; when no connector uses the CRTC it returns   *)
(* true and has called no prepare, mode_set or commit callback.            *)
(***************************************************************************)
C12_SetMode ==
    [][ drm'.last.op = "set_mode" =>
           /\ drm'.last.ok = ~ModeNotSet(drm'.last.calls)
           /\ ~drm'.last.ok =>
                 \A f \in { "enabled", "mode", "hwmode", "x", "y" } :
                    drm'.crtc[drm'.last.crtc][f] = drm.crtc[drm'.last.crtc][f]
           /\ ~UsedByConnector(drm, drm'.last.crtc) =>
                 /\ drm'.last.ok
                 /\ CallsOf(drm'.last.calls,
                            { "encoder.prepare", "crtc.prepare",
                              "encoder.mode_set", "crtc.mode_set",
                              "encoder.commit", "crtc.commit" }) = {} ]_vars

\* on a CRTC an earlier modeset had configured, a new mode with rewritten
\* adjusted_mode got as far as the CRTC's mode_set, which failed: the call
\* returned false and the CRTC is as it was
C12_Witness ==
    /\ drm.last.op = "set_mode"
    /\ ~drm.last.ok
    /\ drm.last.req.mode = "800x600"
    /\ \E k \in CallsOf(drm.last.calls, { "crtc.mode_set" }) :
          drm.last.calls[k].val = -22
    /\ CallsOf(drm.last.calls, { "encoder.prepare" }) # {}
    /\ drm.crtc[0] = CrtcConfigured

(***************************************************************************)
(* C13: drm_helper_connector_dpms returns 0; when the mode asked for is    *)
(* the connector's dpms it calls nothing and changes nothing; when the     *)
(* mode is lower than the old one (towards on) every CRTC dpms call comes  *)
(* before every encoder dpms call, and when it is higher (towards off)     *)
(* every encoder dpms call comes before every CRTC dpms call.              *)
(***************************************************************************)
C13_ConnectorDpms ==
    [][ drm'.last.op = "connector_dpms" =>
           LET mode == drm'.last.mode
               old == drm.conn_dpms[drm'.last.connector]
               calls == drm'.last.calls
           IN  /\ drm'.last.ret = 0
               /\ mode = old =>
                     /\ calls = << >>
                     /\ [drm' EXCEPT !.last = drm.last] = drm
               /\ mode < old =>
                     \A i \in CallsOf(calls, { "crtc.dpms" }),
                        j \in CallsOf(calls, { "encoder.dpms" }) : i < j
               /\ mode > old =>
                     \A i \in CallsOf(calls, { "crtc.dpms" }),
                        j \in CallsOf(calls, { "encoder.dpms" }) : j < i ]_vars

\* a connector that was off has been switched on: the CRTC's dpms callback
\* was called, then the encoder's, both with DRM_MODE_DPMS_ON
C13_Witness ==
    /\ drm.last.op = "connector_dpms"
    /\ drm.last.mode = DRM_MODE_DPMS_ON
    /\ drm.last.old = DRM_MODE_DPMS_OFF
    /\ drm.last.ret = 0
    /\ \E i, j \in 1 .. Len(drm.last.calls) :
          /\ i < j
          /\ drm.last.calls[i].fn = "crtc.dpms"
          /\ drm.last.calls[i].val = DRM_MODE_DPMS_ON
          /\ drm.last.calls[j].fn = "encoder.dpms"
          /\ drm.last.calls[j].val = DRM_MODE_DPMS_ON

\* a chained handler has just run
HandlerRan ==
    ev.op = "chained_handle_irq"

\* the positions of ev.calls at which generic_handle_irq is called for line l
DispatchesOf(l) ==
    { k \in 1 .. Len(ev.calls) :
        ev.calls[k].fn = "generic_handle_irq" /\ ev.calls[k].arg = l }

(***************************************************************************)
(* C14: when the value read from the status register is non-zero, the      *)
(* handler calls generic_handle_irq exactly once for every line whose bit  *)
(* is set, for no other line, in ascending line order, does not call       *)
(* spurious_interrupt and returns; on every path, whatever was read,       *)
(* chained_irq_enter is the first call and chained_irq_exit the last.      *)
(***************************************************************************)
C14_DispatchPending ==
    HandlerRan =>
        /\ ev.calls[1].fn = "chained_irq_enter"
        /\ ev.calls[Len(ev.calls)].fn = "chained_irq_exit"
        /\ \A k \in 2 .. (Len(ev.calls) - 1) :
              ev.calls[k].fn \in { "generic_handle_irq", "spurious_interrupt" }
        /\ ev.pending # {} =>
              /\ \A l \in Lines :
                    Cardinality(DispatchesOf(l)) = IF l \in ev.pending THEN 1 ELSE 0
              /\ \A j, k \in 2 .. (Len(ev.calls) - 1) :
                    j < k => ev.calls[j].arg < ev.calls[k].arg
              /\ \A k \in 1 .. Len(ev.calls) : ev.calls[k].fn # "spurious_interrupt"

\* the handler has read two pending lines and dispatched line 10, then line 31
C14_Witness ==
    /\ HandlerRan
    /\ ev.pending = {BUGGY_LPC_IRQ, 31}
    /\ Len(ev.calls) = 4
    /\ ev.calls[2] = Call("generic_handle_irq", BUGGY_LPC_IRQ)
    /\ ev.calls[3] = Call("generic_handle_irq", 31)

\* the lines the handler that has just run called generic_handle_irq for
DispatchedLines ==
    { l \in Lines : DispatchesOf(l) # {} }

(***************************************************************************)
(* C15 as stated: every line dispatched by the handler of parent p is in   *)
(* handler[p].parent_int_map; a line assigned to another parent is never   *)
(* dispatched from p's handler.                                            *)
(***************************************************************************)
C15_OnlyOwnLines ==
    HandlerRan => DispatchedLines \subseteq parent_int_map[ev.parent]

(***************************************************************************)
(* C15 amended: the handler of parent p dispatches the lines whose bits    *)
(* are set in the value read from the status register, whichever parent    *)
(* they are assigned to; handler[p].parent_int_map is consulted only when  *)
(* the value read is zero, and then only line 10 is dispatched and only    *)
(* if it is assigned to p.                                                 *)
(***************************************************************************)
C15_DispatchedWerePending ==
    HandlerRan =>
        /\ ev.pending # {} => DispatchedLines = ev.pending
        /\ ev.pending = {} =>
              /\ DispatchedLines \subseteq {BUGGY_LPC_IRQ}
              /\ DispatchedLines \subseteq parent_int_map[ev.parent]

\* the handler of one parent has dispatched a line assigned to another
\* parent whose handler is installed as well
C15_Witness ==
    /\ HandlerRan
    /\ \E l \in DispatchedLines, q \in chained :
          /\ q # ev.parent
          /\ l \in parent_int_map[q]
          /\ l \notin parent_int_map[ev.parent]

ByteBit(x, n) ==
    (x \div (2 ^ n)) % 2 = 1

(***************************************************************************)
(* C17: after iointc_of_init has returned 0 with a boot core id in 0..3,   *)
(* for every line the map_cache byte and the map register are equal and    *)
(* have exactly two bits set: bit 4 + c for the parent c the line is       *)
(* assigned to, and the bit of the boot core in the low nibble; and the    *)
(* step that sets the core leaves the high nibble of every byte as it was. *)
(***************************************************************************)
C17_MapBytes ==
    /\ [] ( (pc = "running" /\ core \in 0 .. 3) =>
              \A l \in Lines :
                 /\ map_reg[l] = map_cache[l]
                 /\ \E c \in Parents :
                       /\ Owners(l) = {c}
                       /\ { n \in 0 .. 7 : ByteBit(map_cache[l], n) }
                             = { IOINTC_SHIFT_INTx + c, core } )
    /\ [][ (pc = "set_core" /\ pc' = "gc") =>
              \A l \in Lines :
                 map_cache'[l] \div 16 = map_cache[l] \div 16 ]_vars

\* initialisation has succeeded on boot core 1 with line 10 on parent 3 and
\* line 31 on another parent
C17_Witness ==
    /\ pc = "running"
    /\ core = 1
    /\ map_cache[BUGGY_LPC_IRQ] = 130
    /\ map_reg[BUGGY_LPC_IRQ] = 130
    /\ BUGGY_LPC_IRQ \in parent_int_map[3]
    /\ 31 \notin parent_int_map[3]
    /\ map_reg[31] \in { 18, 34, 66 }

(***************************************************************************)
(* C18: whatever the registers hold when iointc_resume is called, when it  *)
(* returns every one of the 32 map registers equals map_cache of its line, *)
(* the last value written to the disable register is mask_cache and the    *)
(* last value written to the enable register is its complement, map_cache, *)
(* mask_cache and parent_int_map are what they were, and the generic-chip  *)
(* lock is free.                                                           *)
(***************************************************************************)
C18_ResumeRestores ==
    [][ ev'.op = "resume" =>
           /\ \A l \in Lines : map_reg'[l] = map_cache[l]
           /\ reg_disable' = mask_cache
           /\ reg_enable' = Lines \ mask_cache
           /\ map_cache' = map_cache
           /\ mask_cache' = mask_cache
           /\ parent_int_map' = parent_int_map
           /\ ~gc_lock' ]_vars

\* iointc_resume has just run on a controller where line 10's bit of
\* mask_cache had been cleared: the registers hold the cached state
C18_Witness ==
    /\ ev.op = "resume"
    /\ mask_cache = Lines \ {BUGGY_LPC_IRQ}
    /\ reg_disable = Lines \ {BUGGY_LPC_IRQ}
    /\ reg_enable = {BUGGY_LPC_IRQ}
    /\ map_reg = map_cache
    /\ map_reg[31] # 0
    /\ ~gc_lock

\* the trigger types the switch of iointc_set_type has a case for
SupportedTypes ==
    { "LEVEL_HIGH", "LEVEL_LOW", "EDGE_RISING", "EDGE_FALLING" }

(***************************************************************************)
(* C19: iointc_set_type for a line sets that line's EDGE and POL bits to   *)
(* (0,1) for LEVEL_HIGH, (0,0) for LEVEL_LOW, (1,1) for EDGE_RISING and    *)
(* (1,0) for EDGE_FALLING, leaves the EDGE and POL bits of the other lines *)
(* as they were, records the trigger type and returns 0; for any other     *)
(* type it returns -EINVAL and the EDGE and POL registers and the recorded *)
(* trigger types are what they were.                                       *)
(***************************************************************************)
C19_SetType ==
    [][ ev'.op = "set_type" =>
           IF ev'.type \in SupportedTypes
           THEN /\ << ev'.irq \in reg_edge', ev'.irq \in reg_pol' >> =
                      CASE ev'.type = "LEVEL_HIGH" -> << FALSE, TRUE >>
                        [] ev'.type = "LEVEL_LOW" -> << FALSE, FALSE >>
                        [] ev'.type = "EDGE_RISING" -> << TRUE, TRUE >>
                        [] ev'.type = "EDGE_FALLING" -> << TRUE, FALSE >>
                /\ reg_edge' \ {ev'.irq} = reg_edge \ {ev'.irq}
                /\ reg_pol' \ {ev'.irq} = reg_pol \ {ev'.irq}
                /\ trigger' = [trigger EXCEPT ![ev'.irq] = ev'.type]
                /\ ev'.ret = "0"
           ELSE /\ ev'.ret = "-EINVAL"
                /\ reg_edge' = reg_edge
                /\ reg_pol' = reg_pol
                /\ trigger' = trigger ]_vars

\* line 10 has just been set to falling edge on a controller whose EDGE and
\* POL registers held all ones: the other lines' bits are still set
C19_Witness ==
    /\ ev.op = "set_type"
    /\ ev.type = "EDGE_FALLING"
    /\ ev.ret = "0"
    /\ reg_edge = Lines
    /\ reg_pol = Lines \ {BUGGY_LPC_IRQ}
    /\ trigger[BUGGY_LPC_IRQ] = "EDGE_FALLING"

(***************************************************************************)
(* C20: iointc_set_type releases the generic-chip lock on every return     *)
(* path, the one for an unsupported trigger type included, so that between *)
(* calls the lock is free and a later iointc_set_type or iointc_resume can *)
(* take it.                                                                *)
(***************************************************************************)
C20_LockReleased ==
    ~gc_lock

\* iointc_set_type has returned -EINVAL for a type without a case and the
\* generic-chip lock is still held
C20_Witness ==
    /\ pc = "running"
    /\ ev.op = "set_type"
    /\ ev.type \notin SupportedTypes
    /\ ev.ret = "-EINVAL"
    /\ gc_lock

\* every line has one owner, an available parent, and the map byte and the
\* map register of the line name that parent and the boot core
AssignmentWritten ==
    \A l \in Lines :
        \E c \in possible_parent_mask :
            /\ Owners(l) = {c}
            /\ NibbleParents(l) = {c}
            /\ map_reg[l] = map_cache[l]
            /\ LowNibble(map_cache[l]) = BITn(core)

\* no map register has been written
MapUnwritten ==
    \A l \in Lines : map_reg[l] = 0

(***************************************************************************)
(* C21: in iointc_of_init the map registers are written only after all 32  *)
(* lines have been disabled and set level-triggered; a chained handler is  *)
(* installed only after the assignment has been computed and written to    *)
(* all 32 map registers and gc->mask_cache has been set to all ones, the   *)
(* driver's all-masked; handlers are installed only for available parents; *)
(* so a chained handler never runs against a partially built assignment.   *)
(***************************************************************************)
C21_InitOrder ==
    /\ [] ( pc \in { "alloc", "parents", "read_map", "domain", "quiesce",
                     "validate", "set_core", "failed" }
              => MapUnwritten /\ chained = {} )
    /\ [][ (pc # "running" /\ map_reg' # map_reg)
              => reg_disable = Lines /\ reg_edge = {} ]_vars
    /\ [][ chained' # chained
              => /\ AssignmentWritten
                 /\ mask_cache = Lines
                 /\ chained \subseteq chained' ]_vars
    /\ [] ( chained \subseteq possible_parent_mask )
    /\ [] ( HandlerRan
              => /\ ev.parent \in possible_parent_mask
                 /\ AssignmentWritten
                 /\ mask_cache = Lines )

\* the handler of the first of three available parents has run while
\* iointc_of_init had not yet installed the handlers of the other two
C21_Witness ==
    /\ pc = "install"
    /\ HandlerRan
    /\ Cardinality(chained) = 1
    /\ Cardinality(possible_parent_mask) = 3
    /\ AssignmentWritten
    /\ reg_disable = Lines
    /\ reg_edge = {}

\* the positions of iointc_of_init before its first writel (line 286)
BeforeFirstWrite ==
    { "alloc", "parents", "read_map", "domain" }

\* the controller registers and the installed handlers
ControllerState ==
    << map_reg, reg_disable, reg_enable, reg_edge, reg_pol, chained >>

\* what iointc_of_init had acquired when it left with the given error
AcquiredAt(e) ==
    IF e = Ret("-ENOMEM", "") THEN {}
    ELSE IF e = Ret("-ENODEV", "") THEN {"priv"}
    ELSE IF e.msg = "unable to register IRQ domain" THEN {"priv", "base", "domain"}
    ELSE {"priv", "base"}

(***************************************************************************)
(* C22: when iointc_of_init returns an error, it does so from a position   *)
(* before its first register write, no controller register has been        *)
(* written and no chained handler installed, and each of the private data, *)
(* the register mapping and the IRQ domain that had been acquired has been *)
(* released once (none is still held, none was released without being      *)
(* held), while what had not been acquired has not been released.          *)
(***************************************************************************)
C22_ErrorPaths ==
    /\ [][ (pc' = "failed") => (pc \in BeforeFirstWrite \cup {"failed"}) ]_vars
    /\ [][ (pc \in BeforeFirstWrite \cup {"failed"})
              => (ControllerState' = ControllerState) ]_vars
    /\ [] ( pc = "failed" =>
              /\ MapUnwritten
              /\ reg_disable = {} /\ reg_enable = {}
              /\ chained = {}
              /\ err.ret \in { "-ENOMEM", "-ENODEV" }
              /\ \A k \in DOMAIN res :
                    res[k] = IF k \in AcquiredAt(err) THEN "released" ELSE "none" )
    /\ [][ \A k \in DOMAIN res : (res[k] = "released") => (res'[k] = "released") ]_vars

\* the generic chips could not be allocated: the domain, the mapping and the
\* private data have all been released and the controller is untouched
C22_Witness ==
    /\ pc = "failed"
    /\ err = Ret("-ENOMEM", "unable to register IRQ domain")
    /\ res = [priv |-> "released", base |-> "released", domain |-> "released"]
    /\ MapUnwritten
    /\ chained = {}

\* the unavailable parents that claim line l in the hint table
UnavailableClaimants(l) ==
    { c \in Parents \ possible_parent_mask : l \in of_parent_int_map[c] }

\* the hint table with the words of the unavailable parents zeroed
AvailableHints ==
    [c \in Parents |-> IF c \in possible_parent_mask THEN of_parent_int_map[c] ELSE {}]

(***************************************************************************)
(* C23: hint bits of a parent that is not available have no effect.  A     *)
(* line claimed only by unavailable parents gets the homeless diagnostic   *)
(* and goes to the fallback; a line claimed by exactly one available       *)
(* parent, and by any unavailable ones, stays with that parent without any *)
(* diagnostic; and the assignment, the diagnostics and the map bytes are   *)
(* those validate_parent_mask produces from the table in which the words   *)
(* of the unavailable parents are zero.                                    *)
(***************************************************************************)
C23_UnavailableHintsIgnored ==
    Resolved =>
        /\ \A l \in Lines :
              Claimants(l) = {} =>
                  /\ Owners(l) = {LowestAvailable}
                  /\ Cardinality(Warnings("homeless", l)) = 1
                  /\ Warnings("duplicated", l) = {}
        /\ \A l \in Lines :
              Cardinality(Claimants(l)) = 1 =>
                  /\ Owners(l) = Claimants(l)
                  /\ Warnings("homeless", l) = {}
                  /\ Warnings("duplicated", l) = {}
        /\ \E st \in {ValidateMasks(possible_parent_mask, AvailableHints, NoMap)} :
              /\ parent_int_map = st.map
              /\ warn = st.warn
              /\ map_cache = GenMapCache(0, st.map, NoCache)

\* line 5 is claimed by two unavailable parents only and went to the
\* fallback; line 6 is claimed by an available parent other than the
\* fallback and by an unavailable one, and stayed with the available one
C23_Witness ==
    /\ pc = "set_core"
    /\ Claimants(5) = {}
    /\ Cardinality(UnavailableClaimants(5)) = 2
    /\ Owners(5) = {LowestAvailable}
    /\ Cardinality(Claimants(6)) = 1
    /\ UnavailableClaimants(6) # {}
    /\ Owners(6) = Claimants(6)
    /\ Owners(6) # {LowestAvailable}

\* the secondary has left the mailbox loop and has not yet called in
JustStarted ==
    smp.spc = "init_secondary"

\* the positions of the mailbox loop after the branch on the PC slot
PastPcBranch ==
    { "read_sp", "read_gp", "read_a1" }

(***************************************************************************)
(* C24: a CPU that leaves the mailbox loop starts with the PC, SP and GP   *)
(* of the most recent loongson3_boot_secondary call, all four of whose     *)
(* writes have been made.  The PC slot is written last: while it is        *)
(* non-zero the SP, GP and a1 slots hold that call's values.  The loop     *)
(* reads SP and GP only with a non-zero PC in hand.  smp_finish zeroes the *)
(* PC slot: it is zero while the CPU is online or on its way into the      *)
(* loop, and a CPU waiting in the loop finds it non-zero only while a boot *)
(* request is unanswered.                                                  *)
(***************************************************************************)
C24_MailboxHandshake ==
    /\ JustStarted =>
          /\ smp.bstep = 4
          /\ smp.started.pc = smp.startargs[0]
          /\ smp.started.sp = smp.startargs[1]
          /\ smp.started.gp = smp.startargs[2]
          /\ smp.started.pc = smp_bootstrap
    /\ smp.mbox[0] # 0 =>
          /\ smp.bstep = 4
          /\ smp.mbox[0] = smp.startargs[0]
          /\ smp.mbox[8] = smp.startargs[1]
          /\ smp.mbox[16] = smp.startargs[2]
          /\ smp.mbox[24] = smp.startargs[3]
    /\ smp.spc \in PastPcBranch => smp.regs.initfunc # 0
    /\ smp.spc \in { "online", "play_dead", "store_dead" } => smp.mbox[0] = 0
    /\ (smp.spc = "wait" /\ smp.mbox[0] # 0) =>
          (smp.bpc = "wait_callin" /\ ~smp.callin)

\* parked by play_dead, the CPU has read the PC, SP and GP of the second
\* boot request, whose idle task is not the one it started with before
C24_Witness ==
    /\ smp.spc = "read_a1"
    /\ smp.boots = 2
    /\ smp.l1 = "flushed"
    /\ smp.cpu_state = CPU_DEAD
    /\ smp.regs.initfunc = smp_bootstrap
    /\ smp.regs.sp = smp.startargs[1]
    /\ smp.regs.gp = smp.startargs[2]
    /\ smp.started.sp # smp.regs.sp
    /\ smp.started.gp # smp.regs.gp

\* the boot CPU is in the loop of loongson3_cpu_die
InCpuDie ==
    smp.bpc = "cpu_die"

\* the secondary is in play_dead and has not yet stored CPU_DEAD
BeforeDeadStore ==
    smp.spc \in { "play_dead", "store_dead" }

(***************************************************************************)
(* C25: loongson3_cpu_die returns only when the target, in this offline    *)
(* cycle, has flushed its L1 caches and stored CPU_DEAD and is in the      *)
(* mailbox loop; the store that makes cpu_state CPU_DEAD is made with the  *)
(* caches flushed; init_secondary has set cpu_state to CPU_ONLINE by the   *)
(* time the CPU calls in, so that while the target has not yet stored      *)
(* CPU_DEAD in this cycle loongson3_cpu_die reads CPU_ONLINE, never a      *)
(* CPU_DEAD of an earlier cycle.                                           *)
(***************************************************************************)
C25_CpuDieWaits ==
    /\ [][ (InCpuDie /\ smp'.bpc # "cpu_die") =>
              /\ smp.cpu_state = CPU_DEAD
              /\ smp.spc = "wait"
              /\ smp.l1 = "flushed"
              /\ smp.mbox[0] = 0 ]_vars
    /\ [][ (smp.cpu_state # CPU_DEAD /\ smp'.cpu_state = CPU_DEAD) =>
              /\ smp.spc = "store_dead"
              /\ smp.l1 = "flushed"
              /\ smp'.l1 = "flushed" ]_vars
    /\ [] ( smp.spc \in { "callin", "smp_finish", "online" } =>
              smp.cpu_state = CPU_ONLINE )
    /\ [] ( (InCpuDie /\ BeforeDeadStore) => smp.cpu_state = CPU_ONLINE )

\* loongson3_cpu_die has returned in the second offline cycle of the CPU:
\* the target has flushed its caches, stored CPU_DEAD over the CPU_ONLINE of
\* its second bring-up, and waits in the mailbox loop
C25_Witness ==
    /\ smp.bpc = "teardown"
    /\ smp.boots = 2
    /\ smp.online = FALSE
    /\ smp.spc = "wait"
    /\ smp.l1 = "flushed"
    /\ smp.cpu_state = CPU_DEAD

====
